---------------------------- MODULE Spec2Model ----------------------------
(***************************************************************************)
(* A model of the KML/GPX import pipeline and the elevation profile        *)
(* request of the web map viewer:                                          *)
(*   - parseIconUrl and the feature deserializer of src/utils/kmlUtils.js  *)
(*   - handleFileContent, isKml, isGpx (file import) and KMLLayer          *)
(*   - profile() of src/api/profile.api.js                                 *)
(*                                                                         *)
(* Text is modelled as a sequence of lexemes (tuples of short strings):    *)
(* a lexeme is a punctuation character, a run of digits or a word, so a    *)
(* regular expression of the code is matched lexeme by lexeme.             *)
(* A JavaScript null/undefined is the record NULL; every nullable value    *)
(* is a record, so that it can be compared with NULL.                      *)
(***************************************************************************)
EXTENDS Integers, Sequences, FiniteSets, TLC

VARIABLES
    iconUrl,            \* parseIconUrl: the URL handed to it
    parsedIconArgs,     \* parseIconUrl: what it returned (PENDING before the call)
    kmlFeatures,        \* the raw features the KML reader produced (mutable styles)
    availableIconSets,  \* the icon catalog handed to the deserializer, or NULL
    deserializeLog,     \* one entry per getEditableFeatureFromKmlFeature call
    parseKmlOutcome,    \* parseKml: what it was given, and "none" | "returned" | "threw"
    activeLayers,       \* store.state.layers.activeLayers
    dispatched,         \* every store.dispatch of the import, in order
    lastImport,         \* the last handleFileContent call and how it ended
    profileCalls,       \* one entry per profile() call: its promise and its POSTs
    lastCall,           \* the last call of a pure function: its arguments and result
    lang,               \* store.state.i18n.lang
    currentTopic,       \* store.state.topics.current, or NULL
    layersConfigByLang, \* the cache of layers configs, one entry per language
    configLoads,        \* one entry per loadLayersAndTopicsConfigAndDispatchToStore call
    backendRequests,    \* the language of every loadLayersConfigFromBackend call, in order
    configDispatches,
    isPointerDown,      \* useMouseOnMap: let isPointerDown
    isStillOnStartingPosition,            \* useMouseOnMap
    hasPointerDownTriggeredLocationPopup, \* useMouseOnMap
    contextMenuTimeout, \* useMouseOnMap: the id setTimeout returned last, or NULL
    timeouts,           \* the timers of setTimeout still to fire, in the order they were set
    mouseEvents,        \* every pointer event and every store.dispatch of useMouseOnMap, in order
    geolocation,        \* store.state.geolocation
    geolocationWatcher, \* geolocation plugin: let geolocationWatcher
    watchers,           \* the ids watchPosition returned that clearWatch has not cleared
    positionRequests,   \* the getCurrentPosition calls not answered yet
    watcherIds          \* how many ids watchPosition has handed out    \* every store.dispatch of the layers config plugin, in order

vars == << iconUrl, parsedIconArgs, kmlFeatures, availableIconSets, deserializeLog,
           parseKmlOutcome, activeLayers, dispatched, lastImport, profileCalls,
           lastCall, lang, currentTopic, layersConfigByLang, configLoads, backendRequests,
           configDispatches, isPointerDown, isStillOnStartingPosition,
           hasPointerDownTriggeredLocationPopup, contextMenuTimeout, timeouts, mouseEvents,
           geolocation, geolocationWatcher, watchers, positionRequests, watcherIds >>

configVars == << lang, currentTopic, layersConfigByLang, configLoads, backendRequests,
                 configDispatches >>
mouseVars == << isPointerDown, isStillOnStartingPosition,
               hasPointerDownTriggeredLocationPopup, contextMenuTimeout, timeouts, mouseEvents >>
geoVars == << geolocation, geolocationWatcher, watchers, positionRequests, watcherIds >>
pluginVars == << configVars, mouseVars, geoVars >>
coreVars == << iconUrl, parsedIconArgs, kmlFeatures, availableIconSets, deserializeLog,
               parseKmlOutcome, activeLayers, dispatched, lastImport, profileCalls,
               lastCall >>

iconVars == << iconUrl, parsedIconArgs >>
kmlVars == << kmlFeatures, availableIconSets, deserializeLog, parseKmlOutcome >>
importVars == << activeLayers, dispatched, lastImport >>

NULL == [null |-> TRUE]
PENDING == [pending |-> TRUE]

Min(a, b) == IF a <= b THEN a ELSE b
Max(a, b) == IF a >= b THEN a ELSE b
MinOf(S) == CHOOSE a \in S : \A b \in S : a <= b
MaxOf(S) == CHOOSE a \in S : \A b \in S : a >= b

(***************************************************************************)
(* Lexemes of URLs.                                                        *)
(***************************************************************************)
DigitVal == [d0 \in {"0", "2", "24", "128", "255"} |->
                CASE d0 = "0" -> 0 [] d0 = "2" -> 2 [] d0 = "24" -> 24
                  [] d0 = "128" -> 128 [] d0 = "255" -> 255]
DigitToks == DOMAIN DigitVal
LetterToks == {"x", "png", "color", "images", "api", "icons", "sets",
               "default", "babs", "marker", "host"}
IsDigits(t) == t \in DigitToks
IsWord(t) == t \in DigitToks \cup LetterToks

SubSeqAll(u, a, b, P(_)) == a <= b /\ \A k \in a..b : P(u[k])
NotSlash(t) == t # "/"
Tok(u, k, t) == k >= 1 /\ k <= Len(u) /\ u[k] = t
Dig(u, k) == k >= 1 /\ k <= Len(u) /\ IsDigits(u[k])
\* the positions of lexeme t in u
Pos(u, t) == {k \in 1..Len(u) : u[k] = t}
\* the positions just before a lexeme t of u
Before(u, t) == {k - 1 : k \in Pos(u, t)}

(***************************************************************************)
(* /color\/(?<r>\d+),(?<g>\d+),(?<b>\d+)\/(?<name>[^/]+)-(?<size>\d+)      *)
(*  @(?<scale>\d+)x\.png$/ : i is where "color" starts, j where the name   *)
(* ends; the match is anchored at the end of the URL.                      *)
(***************************************************************************)
LegacyDefaultAt(u, i, j) ==
    /\ Tok(u, i, "color") /\ Tok(u, i + 1, "/")
    /\ Dig(u, i + 2) /\ Tok(u, i + 3, ",")
    /\ Dig(u, i + 4) /\ Tok(u, i + 5, ",")
    /\ Dig(u, i + 6) /\ Tok(u, i + 7, "/")
    /\ SubSeqAll(u, i + 8, j, NotSlash)
    /\ Tok(u, j + 1, "-") /\ Dig(u, j + 2)
    /\ Tok(u, j + 3, "@") /\ Dig(u, j + 4)
    /\ Tok(u, j + 5, "x") /\ Tok(u, j + 6, ".") /\ Tok(u, j + 7, "png")
    /\ j + 7 = Len(u)

LegacyDefaultGroups(u, i, j) ==
    [r |-> u[i + 2], g |-> u[i + 4], b |-> u[i + 6],
     name |-> SubSeq(u, i + 8, j), size |-> u[j + 2], scale |-> u[j + 4]]
\* the leftmost match; [^/]+ is greedy: the longest name
LegacyDefaultPick(u, ms, i) ==
    LegacyDefaultGroups(u, i, MaxOf({m[2] : m \in {q \in ms : q[1] = i}}))
LegacyDefaultFirst(u, ms) ==
    IF ms = {} THEN NULL ELSE LegacyDefaultPick(u, ms, MinOf({m[1] : m \in ms}))
legacyDefaultMatch(u) ==
    LegacyDefaultFirst(u, {m \in Pos(u, "color") \X Before(u, "-") :
                              LegacyDefaultAt(u, m[1], m[2])})

(***************************************************************************)
(* /images\/(?<set>\w+)\/(?<name>[^/]+)\.png$/ : i is where "images"       *)
(* starts, k the "/" between set and name.                                 *)
(***************************************************************************)
LegacySetAt(u, i, k) ==
    /\ Tok(u, i, "images") /\ Tok(u, i + 1, "/")
    /\ SubSeqAll(u, i + 2, k - 1, IsWord)
    /\ Tok(u, k, "/")
    /\ SubSeqAll(u, k + 1, Len(u) - 2, NotSlash)
    /\ Tok(u, Len(u) - 1, ".") /\ Tok(u, Len(u), "png")

LegacySetGroups(u, i, k) ==
    [set |-> SubSeq(u, i + 2, k - 1), name |-> SubSeq(u, k + 1, Len(u) - 2)]
LegacySetPick(u, ms, i) ==
    LegacySetGroups(u, i, MaxOf({m[2] : m \in {q \in ms : q[1] = i}}))
LegacySetFirst(u, ms) ==
    IF ms = {} THEN NULL ELSE LegacySetPick(u, ms, MinOf({m[1] : m \in ms}))
legacySetMatch(u) ==
    LegacySetFirst(u, {m \in Pos(u, "images") \X Pos(u, "/") : LegacySetAt(u, m[1], m[2])})

(***************************************************************************)
(* /api\/icons\/sets\/(?<set>\w+)\/icons\/(?<name>.+?)                     *)
(*  (@(?<scale>\d+(\.\d+)?)x-(?<r>\d+),(?<g>\d+),(?<b>\d+))\.png/          *)
(* not anchored.  i is where "api" starts, k the "/" after the set, e the  *)
(* end of the (lazy) name; f is 2 when the scale has a fraction, else 0.   *)
(***************************************************************************)
SetSuffixAt(u, e, f) ==
    /\ Tok(u, e + 1, "@") /\ Dig(u, e + 2)
    /\ (f = 2 => Tok(u, e + 3, ".") /\ Dig(u, e + 4))
    /\ Tok(u, e + f + 3, "x") /\ Tok(u, e + f + 4, "-")
    /\ Dig(u, e + f + 5) /\ Tok(u, e + f + 6, ",")
    /\ Dig(u, e + f + 7) /\ Tok(u, e + f + 8, ",")
    /\ Dig(u, e + f + 9)
    /\ Tok(u, e + f + 10, ".") /\ Tok(u, e + f + 11, "png")

SetAt(u, i, k, e, f) ==
    /\ Tok(u, i, "api") /\ Tok(u, i + 1, "/") /\ Tok(u, i + 2, "icons")
    /\ Tok(u, i + 3, "/") /\ Tok(u, i + 4, "sets") /\ Tok(u, i + 5, "/")
    /\ SubSeqAll(u, i + 6, k - 1, IsWord)
    /\ Tok(u, k, "/") /\ Tok(u, k + 1, "icons") /\ Tok(u, k + 2, "/")
    /\ e >= k + 3 /\ e <= Len(u)
    /\ SetSuffixAt(u, e, f)

SetGroups(u, i, k, e, f) ==
    [set |-> SubSeq(u, i + 6, k - 1), name |-> SubSeq(u, k + 3, e),
     scale |-> SubSeq(u, e + 2, e + f + 2),
     r |-> u[e + f + 5], g |-> u[e + f + 7], b |-> u[e + f + 9]]
\* the scale takes its fraction when there is one
SetPickF(u, ms, i, k, e) ==
    SetGroups(u, i, k, e, MaxOf({m[4] : m \in {q \in ms : q[3] = e}}))
\* .+? is lazy: the shortest name
SetPickE(u, ms, i, k) ==
    SetPickF(u, {q \in ms : q[2] = k}, i, k, MinOf({m[3] : m \in {q \in ms : q[2] = k}}))
SetPickK(u, ms, i) ==
    SetPickE(u, {q \in ms : q[1] = i}, i, MaxOf({m[2] : m \in {q \in ms : q[1] = i}}))
SetFirst(u, ms) ==
    IF ms = {} THEN NULL ELSE SetPickK(u, ms, MinOf({m[1] : m \in ms}))
setMatch(u) ==
    SetFirst(u, {m \in Pos(u, "api") \X Pos(u, "/") \X Before(u, "@") \X {0, 2} :
                    SetAt(u, m[1], m[2], m[3], m[4])})

\* match.groups.<g> ?? dflt
Group(match, g, dflt) == IF g \in DOMAIN match THEN match[g] ELSE dflt

\* parseRGBColor(value, channel): the channel value as a number within 0..255
parseRGBColor(digits, channel) == Max(0, Min(255, DigitVal[digits]))

IconColorArg(r, g, b) == [r |-> r, g |-> g, b |-> b]
IconArgs(set, name, color, isLegacy) ==
    [set |-> set, name |-> name, color |-> color, isLegacy |-> isLegacy]

\* new IconArgs(...) from the match that was kept
IconArgsOf(match, isLegacy) ==
    IF match = NULL THEN NULL
    ELSE IconArgs(Group(match, "set", <<"default">>),
                  Group(match, "name", <<"unknown">>),
                  IconColorArg(parseRGBColor(Group(match, "r", "255"), "R"),
                               parseRGBColor(Group(match, "g", "0"), "B"),
                               parseRGBColor(Group(match, "b", "0"), "G")),
                  isLegacy)

\* legacyDefaultMatch ?? legacySetMatch ?? setMatch
FirstMatch(ld, ls, sm) == IF ld # NULL THEN ld ELSE IF ls # NULL THEN ls ELSE sm
\* A bug the coalescing could have: the current grammar tried before the legacy ones.
FirstMatchCurrentFirst(ld, ls, sm) == IF sm # NULL THEN sm ELSE IF ld # NULL THEN ld ELSE ls

IconArgsOfMatches(ld, ls, sm) == IconArgsOf(FirstMatch(ld, ls, sm), ld # NULL \/ ls # NULL)
IconArgsOfMatchesCurrentFirst(ld, ls, sm) ==
    IconArgsOf(FirstMatchCurrentFirst(ld, ls, sm), ld # NULL \/ ls # NULL)

parseIconUrlCurrentFirst(url) ==
    IconArgsOfMatchesCurrentFirst(legacyDefaultMatch(url), legacySetMatch(url), setMatch(url))

parseIconUrl(url) ==
    IconArgsOfMatches(legacyDefaultMatch(url), legacySetMatch(url), setMatch(url))

(***************************************************************************)
(* The URLs handed to parseIconUrl: one or two path fragments after a      *)
(* host, each fragment written in one of the three grammars or in none.    *)
(***************************************************************************)
UrlColors == { <<"255", "0", "0">>, <<"0", "128", "255">> }
UrlSets == { <<"default">>, <<"babs">>, <<"images">> }
UrlNames == { <<"marker">>, <<"babs", "-", "2">> }
UrlDeepNames == UrlNames \cup { <<"images", "/", "babs", "/", "marker">> }

LegacyColoredUrl(c, name) ==
    <<"color", "/", c[1], ",", c[2], ",", c[3], "/">> \o name
        \o <<"-", "24", "@", "2", "x", ".", "png">>
LegacySetUrl(set, name) ==
    <<"images", "/">> \o set \o <<"/">> \o name \o <<".", "png">>
CurrentUrl(set, name, c) ==
    <<"api", "/", "icons", "/", "sets", "/">> \o set \o <<"/", "icons", "/">> \o name
        \o <<"@", "2", "x", "-", c[1], ",", c[2], ",", c[3], ".", "png">>

UrlFragments ==
    {LegacyColoredUrl(c, n) : c \in UrlColors, n \in UrlNames}
        \cup {LegacySetUrl(s, n) : s \in UrlSets, n \in UrlNames}
        \cup {CurrentUrl(s, n, c) : s \in UrlSets, n \in UrlDeepNames, c \in UrlColors}
        \cup { <<"marker", ".", "png">>, <<"images", "/", "marker", "-", "24", ".", "png">> }

UrlHost == <<"host", "/">>
Urls == {UrlHost \o f : f \in UrlFragments}
            \cup {UrlHost \o f \o <<"/">> \o g : f \in UrlFragments, g \in UrlFragments}

(***************************************************************************)
(* Specification of parseIconUrl alone: any URL, then the call.            *)
(***************************************************************************)
NoParseKml == [outcome |-> "none", input |-> << >>]
IdleKml ==
    /\ kmlFeatures = << >> /\ availableIconSets = NULL
    /\ deserializeLog = << >> /\ parseKmlOutcome = NoParseKml
NoImport == [count |-> 0]
IdleImport == activeLayers = << >> /\ dispatched = << >> /\ lastImport = NoImport
IdleProfile == profileCalls = << >>
IdleIcon == iconUrl = << >> /\ parsedIconArgs = PENDING
NoCall == [fn |-> "none"]
IdleCall == lastCall = NoCall
IdleCore == IdleIcon /\ IdleKml /\ IdleImport /\ IdleProfile /\ IdleCall
IdleConfig ==
    /\ lang = "" /\ currentTopic = NULL /\ layersConfigByLang = << >>
    /\ configLoads = << >> /\ backendRequests = << >> /\ configDispatches = << >>
IdleMouse ==
    /\ isPointerDown = FALSE /\ isStillOnStartingPosition = FALSE
    /\ hasPointerDownTriggeredLocationPopup = FALSE /\ contextMenuTimeout = NULL
    /\ timeouts = << >> /\ mouseEvents = << >>
IdleGeo ==
    /\ geolocation = NULL /\ geolocationWatcher = NULL /\ watchers = {}
    /\ positionRequests = 0 /\ watcherIds = 0
IdlePlugins == IdleConfig /\ IdleMouse /\ IdleGeo

InitIconUrl ==
    /\ iconUrl \in Urls
    /\ parsedIconArgs = PENDING
    /\ IdleKml /\ IdleImport /\ IdleProfile /\ IdleCall /\ IdlePlugins

ParseIconUrlCall ==
    /\ parsedIconArgs = PENDING
    /\ parsedIconArgs' = parseIconUrl(iconUrl)
    /\ UNCHANGED << iconUrl, kmlVars, importVars, profileCalls, lastCall, pluginVars >>

NextIconUrl == ParseIconUrlCall
SpecIconUrl == InitIconUrl /\ [][NextIconUrl]_vars

MatchesLegacyColored(u) == \E i \in 1..Len(u), j \in 1..Len(u) : LegacyDefaultAt(u, i, j)
MatchesLegacySet(u) == \E i \in 1..Len(u), k \in 1..Len(u) : LegacySetAt(u, i, k)
MatchesCurrent(u) ==
    \E i \in Pos(u, "api"), k \in 1..Len(u), e \in 1..Len(u), f \in {0, 2} :
        SetAt(u, i, k, e, f)

ColorOf(m) == IconColorArg(DigitVal[m.r], DigitVal[m.g], DigitVal[m.b])

\* C10: parseIconUrl builds its result from the first grammar that matches in the
\* order legacy colored, legacy set-based, current; isLegacy is true exactly when
\* a legacy grammar matches; a legacy colored URL gets the set "default" and a
\* legacy set-based URL the color red (255,0,0); no grammar matching gives null.
C10_GrammarPrecedence ==
    parsedIconArgs # PENDING =>
        LET u == iconUrl
            a == parsedIconArgs
        IN  /\ (a = NULL) <=>
                  ~(MatchesLegacyColored(u) \/ MatchesLegacySet(u) \/ MatchesCurrent(u))
            /\ a # NULL => (a.isLegacy <=> (MatchesLegacyColored(u) \/ MatchesLegacySet(u)))
            /\ MatchesLegacyColored(u) =>
                  /\ a.set = <<"default">>
                  /\ a.name = legacyDefaultMatch(u).name
                  /\ a.color = ColorOf(legacyDefaultMatch(u))
            /\ (~MatchesLegacyColored(u) /\ MatchesLegacySet(u)) =>
                  /\ a.set = legacySetMatch(u).set
                  /\ a.name = legacySetMatch(u).name
                  /\ a.color = IconColorArg(255, 0, 0)
            /\ (~MatchesLegacyColored(u) /\ ~MatchesLegacySet(u) /\ MatchesCurrent(u)) =>
                  /\ a.set = setMatch(u).set
                  /\ a.name = setMatch(u).name
                  /\ a.color = ColorOf(setMatch(u))

\* C10 witness: a URL that matches a legacy grammar and the current one was parsed
\* and read as the legacy one.
C10_Witness ==
    /\ parsedIconArgs # PENDING /\ parsedIconArgs # NULL
    /\ MatchesLegacySet(iconUrl) /\ MatchesCurrent(iconUrl)
    /\ ~MatchesLegacyColored(iconUrl)
    /\ parsedIconArgs.isLegacy
    /\ parsedIconArgs.color = IconColorArg(255, 0, 0)

\* the color a URL encodes with the digits c
UrlColor(c) == IconColorArg(DigitVal[c[1]], DigitVal[c[2]], DigitVal[c[3]])

\* C11: parsing the URL generated from a set, a name and a color by one of the
\* three grammars gives back what the URL encodes: the name and the color
\* with the set "default" for a legacy colored URL, the set and the name with
\* the color red for a legacy set-based URL, both legacy; the set, the name
\* and the color, not legacy, for a current URL.
C11_RoundTrip ==
    parsedIconArgs # PENDING =>
        \A set \in UrlSets, name \in UrlNames, c \in UrlColors :
            /\ iconUrl = UrlHost \o LegacyColoredUrl(c, name)
                  => parsedIconArgs = IconArgs(<<"default">>, name, UrlColor(c), TRUE)
            /\ iconUrl = UrlHost \o LegacySetUrl(set, name)
                  => parsedIconArgs = IconArgs(set, name, IconColorArg(255, 0, 0), TRUE)
            /\ iconUrl = UrlHost \o CurrentUrl(set, name, c)
                  => parsedIconArgs = IconArgs(set, name, UrlColor(c), FALSE)

(***************************************************************************)
(* The feature deserializer of kmlUtils.js.                                *)
(*                                                                         *)
(* A number that the code multiplies or divides is a fraction [n, d];      *)
(* d = 0 is a non-finite number (Infinity, NaN).  A function that can      *)
(* throw returns THREW instead of a value.                                 *)
(***************************************************************************)
THREW == [threw |-> "TypeError"]
\* new RegExp(pattern) on a pattern that is not a regular expression
SYNTAX_ERROR == [threw |-> "SyntaxError"]

Rat(n, d) == [n |-> n, d |-> d]
RatEq(a, b) == a.d # 0 /\ b.d # 0 /\ a.n * b.d = b.n * a.d
RatMul(a, b) == Rat(a.n * b.n, a.d * b.d)
RatDivInt(a, k) == Rat(a.n, a.d * k)
IsFinite(a) == a.d # 0

LEGACY_ICON_XML_SCALE_FACTOR == Rat(3, 2)

\* EditableFeatureTypes
EditableFeatureTypes == {"MARKER", "ANNOTATION", "LINEPOLYGON", "MEASURE"}

\* String.prototype.toUpperCase on the values the 'type' property takes
TypeStrings == {"marker", "MARKER", "Annotation", "linepolygon", "measure", "foo", "Foo"}
toUpperCase(str) ==
    CASE str \in {"marker", "MARKER"} -> "MARKER"
      [] str = "Annotation" -> "ANNOTATION"
      [] str = "linepolygon" -> "LINEPOLYGON"
      [] str = "measure" -> "MEASURE"
      [] str \in {"foo", "Foo"} -> "FOO"

\* featureStyleUtils: the preset sizes and colors
SMALL == [label |-> "small_size", iconScale |-> Rat(1, 1)]
MEDIUM == [label |-> "medium_size", iconScale |-> Rat(3, 2)]
LARGE == [label |-> "large_size", iconScale |-> Rat(2, 1)]
allStylingSizes == << SMALL, MEDIUM, LARGE >>
RED == [name |-> "red", rgb |-> <<255, 0, 0>>]
BLUE == [name |-> "blue", rgb |-> <<0, 0, 255>>]
GREEN == [name |-> "green", rgb |-> <<0, 128, 0>>]
allStylingColors == << RED, BLUE, GREEN >>

\* Array.prototype.find: the first element that satisfies P, or NULL
Find(arr, P(_)) ==
    IF \E k \in 1..Len(arr) : P(arr[k])
    THEN arr[CHOOSE k \in 1..Len(arr) : P(arr[k]) /\ \A q \in 1..(k - 1) : ~P(arr[q])]
    ELSE NULL

\* getFeatureStyleColor: the preset color with these channels, RED when there is none
OrElse(found, dflt) == IF found = NULL THEN dflt ELSE found
getFeatureStyleColor(rgb) ==
    LET SameRgb(c) == c.rgb = rgb
    IN  OrElse(Find(allStylingColors, SameRgb), RED)

\* getTextSize: the preset with this text scale, MEDIUM when there is none
getTextSize(textScale) ==
    LET SameScale(sz) == textScale # NULL /\ RatEq(sz.iconScale, textScale)
    IN  OrElse(Find(allStylingSizes, SameScale), MEDIUM)

\* getTextColor: the color of the style's text, RED when there is none
getTextColor(style) ==
    IF style.text = NULL THEN RED ELSE getFeatureStyleColor(style.text.color)

\* getStyle(olFeature): the style the KML reader gave the feature, or null
getStyle(kmlFeature) == kmlFeature.style

\* ol/format/KML getDefaultStyle(): the reader's default text scale and icon
DefaultTextScale == Rat(4, 5)
DefaultIconSrc == <<"host", "/", "default", ".", "png">>

IsFeatureLike(kmlFeature) == kmlFeature.kind \in {"Feature", "duck"}

\* lines 90-112: the type guessed from the geometry and the image style
GuessFeatureType(kmlFeature, style) ==
    IF kmlFeature.geometry = NULL
    THEN THREW   \* getGeometry() is undefined: .getType() throws
    ELSE CASE kmlFeature.geometry.type = "Point" ->
                IF /\ style # NULL
                   /\ style.image # NULL
                   /\ style.image.scale.n > 0
                THEN [val |-> "MARKER"]
                ELSE [val |-> "ANNOTATION"]
           [] kmlFeature.geometry.type = "LineString" -> [val |-> "LINEPOLYGON"]
           [] kmlFeature.geometry.type = "Polygon" -> [val |-> "LINEPOLYGON"]
           [] OTHER -> [val |-> "MARKER"]

\* kmlFeature.get('type')?.toUpperCase()
UpperType(typeProp) == IF typeProp = NULL THEN NULL ELSE [s |-> toUpperCase(typeProp.s)]

\* A bug the classification could have: the geometry consulted first.
TypeOrGuessGuessFirst(kmlFeature, upper) ==
    GuessFeatureType(kmlFeature, getStyle(kmlFeature))

\* lines 84-113
TypeOrGuess(kmlFeature, upper) ==
    IF upper # NULL /\ upper.s \in EditableFeatureTypes
    THEN [val |-> upper.s]
    ELSE GuessFeatureType(kmlFeature, getStyle(kmlFeature))

getFeatureType(kmlFeature) ==
    IF ~IsFeatureLike(kmlFeature)
    THEN THREW   \* kmlFeature.get is not callable on null or on a plain object
    ELSE TypeOrGuess(kmlFeature, UpperType(kmlFeature.type))

getTextScale(style) ==
    LET textScale == IF style.text = NULL THEN NULL ELSE style.text.scale
    IN  IF textScale # NULL /\ RatEq(textScale, DefaultTextScale)
        THEN Rat(1, 1)
        ELSE textScale

HasLexeme(u, t) == \E k \in 1..Len(u) : u[k] = t

getIconStyle(style) ==
    LET icon == style.image
    IN  IF icon = NULL \/ ~icon.isIconStyle THEN NULL
        ELSE IF HasLexeme(icon.src, "google") \/ icon.src = DefaultIconSrc THEN NULL
        ELSE icon

DrawingIcon(name, imageURL, imageTemplateURL, iconSetName, anchor) ==
    [name |-> name, imageURL |-> imageURL, imageTemplateURL |-> imageTemplateURL,
     iconSetName |-> iconSetName, anchor |-> anchor]

(***************************************************************************)
(* generateIconFromStyle returns the icon and the icon style as the call   *)
(* leaves it: the displacement is reset and, when getAnchor() hands out    *)
(* the style's own array (anchorIsShared), the division is done in place.  *)
(***************************************************************************)
generateIconFromStyle(iconStyle, iconArgs) ==
    IF iconStyle = NULL \/ iconArgs = NULL
    THEN [icon |-> NULL, iconStyle |-> iconStyle]
    ELSE
    LET moved == [iconStyle EXCEPT !.displacement = <<0, 0>>]
        url == moved.src
        size == moved.size
        got == moved.anchor
        throws == got = NULL \/ size = NULL
        divided == IF throws THEN << Rat(0, 1), Rat(0, 1) >>
                   ELSE << RatDivInt(got.arr[1], size.arr[1]),
                           RatDivInt(got.arr[2], size.arr[2]) >>
        after == IF ~throws /\ moved.anchorIsShared
                 THEN [moved EXCEPT !.anchor = [arr |-> divided]]
                 ELSE moved
    IN  [icon |-> IF url # << >> THEN DrawingIcon(iconArgs.name, url, url, iconArgs.set, divided)
                  ELSE NULL,
         iconStyle |-> after]

\* new RegExp(`^${namePrefix}${iconArgs.name}$`): the name goes into the pattern
\* unescaped.  Names here are made of words, "-" and "("; a "(" opens a group
\* that nothing closes, and the constructor throws.
RegExpCompiles(name) == \A k \in 1..Len(name) : name[k] # "("

\* nameRegex.test(drawingIcon.name), for a pattern that compiled
NameRegexTest(iconArgs, iconName) ==
    \/ iconName = iconArgs.name
    \/ /\ iconArgs.isLegacy
       /\ Len(iconName) = Len(iconArgs.name) + 2
       /\ IsDigits(iconName[1]) /\ iconName[2] = "-"
       /\ SubSeq(iconName, 3, Len(iconName)) = iconArgs.name

IconOrGenerated(icon, iconStyle, iconArgs) ==
    IF icon = NULL THEN generateIconFromStyle(iconStyle, iconArgs)
    ELSE [icon |-> icon, iconStyle |-> iconStyle]

IconOfSet(iconSet, iconStyle, iconArgs) ==
    LET Matches(drawingIcon) == NameRegexTest(iconArgs, drawingIcon.name)
    IN  IF iconSet = NULL THEN generateIconFromStyle(iconStyle, iconArgs)
        ELSE IF ~RegExpCompiles(iconArgs.name)
        THEN [icon |-> SYNTAX_ERROR, iconStyle |-> iconStyle]
        ELSE IconOrGenerated(Find(iconSet.icons, Matches), iconStyle, iconArgs)

getIcon(iconArgs, iconStyle, iconSets) ==
    LET IsNamedSet(drawingIconSet) == drawingIconSet.name = iconArgs.set
    IN  IF iconArgs = NULL THEN [icon |-> NULL, iconStyle |-> iconStyle]
        ELSE IF iconSets = NULL THEN generateIconFromStyle(iconStyle, iconArgs)
        ELSE IconOfSet(Find(iconSets.arr, IsNamedSet), iconStyle, iconArgs)

\* A bug the lookup could have: no default when no preset has the scale
getIconSizeNoDefault(iconStyle) ==
    LET SameScale(size) == RatEq(size.iconScale, iconStyle.scale)
    IN  IF iconStyle.scale # NULL /\ iconStyle.scale.n # 0 /\ iconStyle.scale.d # 0
        THEN Find(allStylingSizes, SameScale)
        ELSE SMALL

\* if (iconScale): an absent scale, 0 and NaN are not truthy
getIconSize(iconStyle) ==
    LET iconScale == iconStyle.scale
        SameScale(size) == RatEq(size.iconScale, iconScale)
    IN  IF iconScale # NULL /\ iconScale.n # 0 /\ iconScale.d # 0
        THEN OrElse(Find(allStylingSizes, SameScale), SMALL)
        ELSE SMALL

\* A bug the resolution order could have: the stroke tried before the icon color.
getFillColorStrokeFirst(style, geometryType, iconArgs) ==
    IF geometryType \in {"LineString", "Point"} /\ style.stroke # NULL
    THEN getFeatureStyleColor(style.stroke.color)
    ELSE IF geometryType = "Point" /\ iconArgs # NULL
    THEN getFeatureStyleColor(<<iconArgs.color.r, iconArgs.color.g, iconArgs.color.b>>)
    ELSE IF geometryType = "Polygon" /\ style.fill # NULL
    THEN getFeatureStyleColor(style.fill.color)
    ELSE RED

getFillColor(style, geometryType, iconArgs) ==
    IF geometryType = "Point" /\ iconArgs # NULL
    THEN getFeatureStyleColor(<<iconArgs.color.r, iconArgs.color.g, iconArgs.color.b>>)
    ELSE IF geometryType \in {"LineString", "Point"} /\ style.stroke # NULL
    THEN getFeatureStyleColor(style.stroke.color)
    ELSE IF geometryType = "Polygon" /\ style.fill # NULL
    THEN getFeatureStyleColor(style.fill.color)
    ELSE RED

\* A bug the unwrapping could have: the last ring kept instead of the first
getKmlFeatureCoordinatesLastRing(feature) ==
    IF feature.geometry.type = "Polygon"
    THEN feature.geometry.coordinates[Len(feature.geometry.coordinates)]
    ELSE feature.geometry.coordinates

getKmlFeatureCoordinates(feature) ==
    IF feature.geometry.type = "Polygon"
    THEN feature.geometry.coordinates[1]
    ELSE feature.geometry.coordinates

\* EditableFeature.newFeature
EditableFeature(id, featureType, title, description, coordinates, geometry, textColor, textSize, fillColor, icon, iconSize) ==
    [id |-> id, featureType |-> featureType, title |-> title,
     description |-> description, coordinates |-> coordinates, geometry |-> geometry,
     textColor |-> textColor, textSize |-> textSize, fillColor |-> fillColor,
     icon |-> icon, iconSize |-> iconSize]

\* new GeoJSON().writeGeometryObject(geometry)
writeGeometryObject(geometry) ==
    [type |-> geometry.type, coordinates |-> geometry.coordinates]

\* The feature with the icon style the call left behind
WithIconStyle(kmlFeature, iconStyle) ==
    IF iconStyle = NULL THEN kmlFeature
    ELSE [kmlFeature EXCEPT !.style.image = iconStyle]

(***************************************************************************)
(* getEditableFeatureFromKmlFeature returns [result, feature]: the result  *)
(* is the editable feature, NULL or THREW, and feature is the raw feature  *)
(* as the call leaves it (setScale, setDisplacement and the anchor are     *)
(* written into the feature's own icon style).  The function is written    *)
(* as a chain, one operator per group of statements, each passing what     *)
(* was computed so far to the next.                                        *)
(***************************************************************************)
\* lines 425-442: fillColor, geometry, coordinates and the EditableFeature
EditableWithIcon(kmlFeature, featureType, style, iconStyle, iconArgs, got) ==
    IF got.icon = SYNTAX_ERROR
    THEN [result |-> SYNTAX_ERROR,   \* thrown by getIcon, line 423
          feature |-> WithIconStyle(kmlFeature, got.iconStyle)]
    ELSE IF kmlFeature.geometry = NULL
    THEN [result |-> THREW,   \* kmlFeature.getGeometry().getType()
          feature |-> WithIconStyle(kmlFeature, got.iconStyle)]
    ELSE [result |->
            EditableFeature(kmlFeature.id, featureType.val, kmlFeature.name,
                            kmlFeature.description,
                            getKmlFeatureCoordinates(kmlFeature),
                            writeGeometryObject(kmlFeature.geometry),
                            getTextColor(style), getTextSize(getTextScale(style)),
                            getFillColor(style, kmlFeature.geometry.type, iconArgs),
                            got.icon,
                            IF iconStyle # NULL THEN getIconSize(got.iconStyle) ELSE NULL),
          feature |-> WithIconStyle(kmlFeature, got.iconStyle)]

\* line 423: icon = iconArgs ? getIcon(iconArgs, iconStyle, availableIconSets) : null
EditableWithScale(kmlFeature, iconSets, featureType, style, iconStyle, iconArgs, scaled) ==
    EditableWithIcon(kmlFeature, featureType, style, iconStyle, iconArgs,
                     IF iconArgs # NULL THEN getIcon(iconArgs, scaled, iconSets)
                     ELSE [icon |-> NULL, iconStyle |-> scaled])

\* A bug the scale correction could have: the legacy scale left as it was read.
EditableWithArgsUnscaled(kmlFeature, iconSets, featureType, style, iconStyle, iconArgs) ==
    EditableWithScale(kmlFeature, iconSets, featureType, style, iconStyle, iconArgs, iconStyle)

\* lines 414-422: iconStyle.setScale(iconStyle.getScale() * LEGACY_ICON_XML_SCALE_FACTOR)
EditableWithArgs(kmlFeature, iconSets, featureType, style, iconStyle, iconArgs) ==
    EditableWithScale(kmlFeature, iconSets, featureType, style, iconStyle, iconArgs,
                      IF iconArgs # NULL /\ iconArgs.isLegacy
                      THEN [iconStyle EXCEPT
                              !.scale = RatMul(@, LEGACY_ICON_XML_SCALE_FACTOR)]
                      ELSE iconStyle)

\* line 413: iconArgs = iconStyle ? parseIconUrl(iconStyle.getSrc()) : null
EditableWithIconStyle(kmlFeature, iconSets, featureType, style, iconStyle) ==
    EditableWithArgs(kmlFeature, iconSets, featureType, style, iconStyle,
                     IF iconStyle # NULL THEN parseIconUrl(iconStyle.src) ELSE NULL)

\* lines 391-412
EditableWithType(kmlFeature, iconSets, featureType) ==
    IF featureType = THREW THEN [result |-> THREW, feature |-> kmlFeature]
    ELSE IF kmlFeature.kind # "Feature" THEN [result |-> NULL, feature |-> kmlFeature]
    ELSE IF getStyle(kmlFeature) = NULL THEN [result |-> NULL, feature |-> kmlFeature]
    ELSE EditableWithIconStyle(kmlFeature, iconSets, featureType, getStyle(kmlFeature),
                               getIconStyle(getStyle(kmlFeature)))

\* line 390: featureType = getFeatureType(kmlFeature), before the instanceof check
getEditableFeatureFromKmlFeature(kmlFeature, iconSets) ==
    EditableWithType(kmlFeature, iconSets, getFeatureType(kmlFeature))

\* editableFeature.isLineOrMeasure()
isLineOrMeasure(editableFeature) ==
    editableFeature.featureType \in {"LINEPOLYGON", "MEASURE"}

\* lines 461-474: what parseKml attaches to a feature that was deserialized
Attached(feature, editableFeature) ==
    [feature EXCEPT !.editableFeature = editableFeature,
                    !.styleFunction = "featureStyleFunction",
                    !.geodesic = isLineOrMeasure(editableFeature)]

(***************************************************************************)
(* parseKml: features.forEach(...) from feature i on.  A throw of the      *)
(* deserializer leaves forEach and parseKml at once.                       *)
(***************************************************************************)
RECURSIVE forEachFeature(_, _, _)
forEachStep(features, i, iconSets, call) ==
    IF call.result \in {THREW, SYNTAX_ERROR}
    THEN [features |-> [features EXCEPT ![i] = call.feature], threw |-> TRUE]
    ELSE IF call.result = NULL
    THEN forEachFeature([features EXCEPT ![i] = call.feature], i + 1, iconSets)
    ELSE forEachFeature([features EXCEPT ![i] = Attached(call.feature, call.result)],
                        i + 1, iconSets)

forEachFeature(features, i, iconSets) ==
    IF i > Len(features) THEN [features |-> features, threw |-> FALSE]
    ELSE forEachStep(features, i, iconSets,
                     getEditableFeatureFromKmlFeature(features[i], iconSets))

parseKml(features, iconSets) == forEachFeature(features, 1, iconSets)

(***************************************************************************)
(* The raw features and the icon catalog the deserializer is given.        *)
(***************************************************************************)
MaxFeatures == 2
MaxDeserializeCalls == 2

IconImage(src, scale, size, shared) ==
    [isIconStyle |-> TRUE, src |-> src, scale |-> scale, size |-> size,
     anchor |-> [arr |-> << Rat(24, 1), Rat(24, 1) >>],
     anchorIsShared |-> shared, displacement |-> <<0, 8>>]
CircleImage == [isIconStyle |-> FALSE, scale |-> Rat(1, 1)]

Size48 == [arr |-> <<48, 48>>]
SizeZero == [arr |-> <<0, 48>>]
Red3 == <<"255", "0", "0">>
SrcCurrent == UrlHost \o CurrentUrl(<<"default">>, <<"marker">>, Red3)
SrcLegacyColored == UrlHost \o LegacyColoredUrl(<<"0", "128", "255">>, <<"marker">>)
SrcLegacySet == UrlHost \o LegacySetUrl(<<"babs">>, <<"marker">>)
SrcUnmatched == UrlHost \o <<"marker", ".", "png">>
SrcGoogle == <<"google", "/", "marker", ".", "png">>

IconImages ==
    {IconImage(src, Rat(1, 1), Size48, FALSE) :
        src \in {SrcCurrent, SrcLegacyColored, SrcLegacySet, SrcUnmatched, SrcGoogle}}
    \cup { IconImage(SrcLegacyColored, Rat(3, 2), Size48, TRUE),
           IconImage(SrcCurrent, Rat(3, 2), NULL, FALSE),
           IconImage(SrcLegacySet, Rat(2, 1), SizeZero, TRUE) }

KmlStyle(image, stroke, fill, text) ==
    [image |-> image, stroke |-> stroke, fill |-> fill, text |-> text]
BlueStroke == [color |-> <<0, 0, 255>>]
RedFill == [color |-> <<255, 0, 0>>]
DefaultText == [scale |-> DefaultTextScale, color |-> <<0, 0, 255>>]

PointGeometry == [type |-> "Point", coordinates |-> << <<1, 1>> >>]
LineGeometry == [type |-> "LineString", coordinates |-> << <<0, 0>>, <<1, 1>> >>]
PolygonGeometry ==
    [type |-> "Polygon",
     coordinates |-> << << <<0, 0>>, <<2, 0>>, <<0, 2>>, <<0, 0>> >>,
                        << <<1, 1>>, <<1, 0>>, <<0, 1>>, <<1, 1>> >> >>]
MultiPointGeometry == [type |-> "MultiPoint", coordinates |-> << <<1, 1>>, <<2, 2>> >>]

RawFeature(kind, type, geometry, style) ==
    [kind |-> kind, id |-> "f", type |-> type, name |-> "title", description |-> "",
     geometry |-> geometry, style |-> style,
     editableFeature |-> NULL, styleFunction |-> "kml", geodesic |-> FALSE]

TypeProp(str) == [s |-> str]

\* What new KML().readFeatures can yield: instances of Feature only
ReaderFeatures ==
    {RawFeature("Feature", NULL, PointGeometry, KmlStyle(img, NULL, NULL, NULL)) :
        img \in IconImages}
    \cup { RawFeature("Feature", TypeProp("marker"), PointGeometry,
                      KmlStyle(IconImage(SrcCurrent, Rat(3, 2), Size48, FALSE),
                               BlueStroke, NULL, DefaultText)),
           RawFeature("Feature", NULL, PointGeometry,
                      KmlStyle(CircleImage, BlueStroke, NULL, DefaultText)),
           RawFeature("Feature", NULL, LineGeometry, KmlStyle(NULL, BlueStroke, NULL, NULL)),
           RawFeature("Feature", TypeProp("measure"), LineGeometry,
                      KmlStyle(NULL, BlueStroke, NULL, NULL)),
           RawFeature("Feature", TypeProp("Foo"), PolygonGeometry,
                      KmlStyle(NULL, BlueStroke, RedFill, NULL)),
           RawFeature("Feature", NULL, MultiPointGeometry, KmlStyle(NULL, NULL, NULL, NULL)),
           \* malformed: no style, no geometry, unknown type
           RawFeature("Feature", TypeProp("marker"), PointGeometry, NULL),
           RawFeature("Feature", NULL, LineGeometry, NULL),
           RawFeature("Feature", TypeProp("marker"), NULL,
                      KmlStyle(IconImage(SrcLegacyColored, Rat(1, 1), Size48, FALSE),
                               NULL, NULL, NULL)),
           RawFeature("Feature", TypeProp("foo"), NULL, KmlStyle(NULL, BlueStroke, NULL, NULL)),
           RawFeature("Feature", TypeProp("foo"), NULL, NULL) }

\* What else a caller can hand to getEditableFeatureFromKmlFeature
NonFeatures ==
    { [kind |-> "null"], [kind |-> "object"],
      RawFeature("duck", TypeProp("marker"), PointGeometry, KmlStyle(NULL, NULL, NULL, NULL)),
      RawFeature("duck", NULL, NULL, NULL) }

CatalogIcon(name, set) ==
    DrawingIcon(name, <<"catalog">>, <<"catalog">>, set, << Rat(1, 2), Rat(1, 1) >>)
IconCatalog ==
    [arr |-> << [name |-> <<"default">>,
                 icons |-> << CatalogIcon(<<"2", "-", "marker">>, <<"default">>) >>],
                [name |-> <<"babs">>,
                 icons |-> << CatalogIcon(<<"babs", "-", "2">>, <<"babs">>) >>] >>]

FeatureLists == UNION {[1..n -> ReaderFeatures] : n \in 1..MaxFeatures}

InitKml ==
    /\ kmlFeatures \in FeatureLists
    /\ availableIconSets \in {NULL, IconCatalog}
    /\ deserializeLog = << >>
    /\ parseKmlOutcome = NoParseKml
    /\ IdleIcon /\ IdleImport /\ IdleProfile /\ IdleCall /\ IdlePlugins

LogEntry(arg, index, call) ==
    [arg |-> arg, index |-> index, result |-> call.result, left |-> call.feature]

\* A call getEditableFeatureFromKmlFeature(kmlFeatures[i], availableIconSets)
DeserializeFeature(i) ==
    /\ Len(deserializeLog) < MaxDeserializeCalls
    /\ deserializeLog' =
          Append(deserializeLog,
                 LogEntry(kmlFeatures[i], i,
                          getEditableFeatureFromKmlFeature(kmlFeatures[i], availableIconSets)))
    /\ kmlFeatures' = [kmlFeatures EXCEPT ![i] = deserializeLog'[Len(deserializeLog')].left]
    /\ UNCHANGED << availableIconSets, parseKmlOutcome, iconVars, importVars, profileCalls, lastCall, pluginVars >>

\* A call of the deserializer on something that is no Feature
DeserializeNonFeature(value) ==
    /\ Len(deserializeLog) < MaxDeserializeCalls
    /\ deserializeLog' =
          Append(deserializeLog,
                 LogEntry(value, 0,
                          getEditableFeatureFromKmlFeature(value, availableIconSets)))
    /\ UNCHANGED << kmlFeatures, availableIconSets, parseKmlOutcome, iconVars,
                    importVars, profileCalls, lastCall, pluginVars >>

\* parseKml(kmlData, projection, availableIconSets) on the document's features
ParseKmlDone(run) ==
    /\ kmlFeatures' = run.features
    /\ parseKmlOutcome' = [outcome |-> IF run.threw THEN "threw" ELSE "returned",
                           input |-> kmlFeatures]
ParseKmlCall ==
    /\ parseKmlOutcome = NoParseKml
    /\ ParseKmlDone(parseKml(kmlFeatures, availableIconSets))
    /\ UNCHANGED << availableIconSets, deserializeLog, iconVars, importVars, profileCalls, lastCall, pluginVars >>

NextKml ==
    \/ \E i \in 1..Len(kmlFeatures) : DeserializeFeature(i)
    \/ \E value \in NonFeatures : DeserializeNonFeature(value)
    \/ ParseKmlCall
SpecKml == InitKml /\ [][NextKml]_vars

(***************************************************************************)
(* Specification of the deserializer alone: one raw feature of a document, *)
(* deserialized again and again.                                           *)
(***************************************************************************)
InitDeserialize ==
    /\ kmlFeatures \in {<<feature>> : feature \in ReaderFeatures}
    /\ availableIconSets \in {NULL, IconCatalog}
    /\ deserializeLog = << >>
    /\ parseKmlOutcome = NoParseKml
    /\ IdleIcon /\ IdleImport /\ IdleProfile /\ IdleCall /\ IdlePlugins

NextDeserialize ==
    \/ DeserializeFeature(1)
    \/ \E value \in NonFeatures : DeserializeNonFeature(value)
SpecDeserialize == InitDeserialize /\ [][NextDeserialize]_vars

(***************************************************************************)
(* Properties of the deserializer and of parseKml.                         *)
(***************************************************************************)
IsEditable(result) == result \notin {NULL, THREW, SYNTAX_ERROR}
Deserializable(kmlFeature) ==
    IsEditable(getEditableFeatureFromKmlFeature(kmlFeature, availableIconSets).result)

\* C2: every EditableFeature the deserializer returned has icon and iconSize
\* both null or both non-null.
C2_IconAndIconSizeTogether ==
    \A k \in 1..Len(deserializeLog) :
        IsEditable(deserializeLog[k].result) =>
            (deserializeLog[k].result.icon = NULL
                <=> deserializeLog[k].result.iconSize = NULL)

\* C3: a call whose argument is no Feature instance, or is a feature without
\* a style, returned null (and so did not throw).
C3_NullForInvalidFeature ==
    \A k \in 1..Len(deserializeLog) :
        (\/ deserializeLog[k].arg.kind # "Feature"
         \/ getStyle(deserializeLog[k].arg) = NULL)
            => deserializeLog[k].result = NULL

\* C4: once parseKml was called it has returned, and every feature of its
\* input that is deserializable on its own has its editableFeature attached.
C4_FailingFeatureIsIsolated ==
    parseKmlOutcome # NoParseKml =>
        /\ parseKmlOutcome.outcome = "returned"
        /\ \A i \in 1..Len(parseKmlOutcome.input) :
              Deserializable(parseKmlOutcome.input[i])
                  => kmlFeatures[i].editableFeature # NULL

\* C6: a call leaves the raw feature as it found it, and two calls on the same
\* raw feature return equal results.
C6_DeserializationIsPure ==
    /\ \A k \in 1..Len(deserializeLog) :
          deserializeLog[k].left = deserializeLog[k].arg
    /\ \A j, k \in 1..Len(deserializeLog) :
          (deserializeLog[j].index = deserializeLog[k].index
              /\ deserializeLog[j].index > 0)
              => deserializeLog[j].result = deserializeLog[k].result

\* the calls that returned an EditableFeature for a feature with an icon style
IconCalls ==
    {k \in 1..Len(deserializeLog) :
        /\ IsEditable(deserializeLog[k].result)
        /\ getIconStyle(getStyle(deserializeLog[k].arg)) # NULL}
\* the scale the icon style has when call k starts, and the parsed URL
ScaleRead(k) == getIconStyle(getStyle(deserializeLog[k].arg)).scale
ArgsRead(k) == parseIconUrl(getIconStyle(getStyle(deserializeLog[k].arg)).src)
IsLegacyRead(k) == ArgsRead(k) # NULL /\ ArgsRead(k).isLegacy
\* the preset size of a scale: small for 1, medium for 1.5, large for 2,
\* small for any other scale
SizeOfScale(scale) ==
    IF RatEq(scale, Rat(3, 2)) THEN MEDIUM
    ELSE IF RatEq(scale, Rat(2, 1)) THEN LARGE
    ELSE SMALL
ScaleUsed(k) == IF IsLegacyRead(k) THEN RatMul(ScaleRead(k), Rat(3, 2)) ELSE ScaleRead(k)

\* C12: in every call on a feature with an icon style, the icon size is the
\* size of 1.5 times the scale read when the icon URL is legacy, and the size
\* of the scale read when it is not legacy or does not parse; the icon style
\* is left with that scale.
C12_LegacyScaleCorrection ==
    \A k \in IconCalls :
        /\ deserializeLog[k].result.iconSize = SizeOfScale(ScaleUsed(k))
        /\ RatEq(deserializeLog[k].left.style.image.scale, ScaleUsed(k))

C12_Witness ==
    \E k \in IconCalls :
        /\ IsLegacyRead(k)
        /\ RatEq(ScaleRead(k), Rat(1, 1))
        /\ deserializeLog[k].result.iconSize = MEDIUM
        /\ RatEq(deserializeLog[k].left.style.image.scale, Rat(3, 2))

(***************************************************************************)
(* File import: isKml, isGpx and handleFileContent, with the KMLLayer      *)
(* class and getKmlExtent.  A file's content is a sequence of lexemes:     *)
(* "<", "/", ">", a blank, or a word.                                      *)
(***************************************************************************)
\* word.startsWith(tag), on the words the contents are made of
StartsWith(word, tag) ==
    \/ word = tag
    \/ word = "kmlx" /\ tag = "kml"
    \/ word = "gpxx" /\ tag = "gpx"
IsSpace(t) == t = " "

\* /<kml/.test(fileContent), /<gpx/.test(fileContent)
TestOpening(fileContent, tag) ==
    \E i \in 1..(Len(fileContent) - 1) :
        fileContent[i] = "<" /\ StartsWith(fileContent[i + 1], tag)

\* /<\/kml\s*>/.test(fileContent), /<\/gpx\s*>/.test(fileContent)
TestClosing(fileContent, tag) ==
    \E i \in 1..(Len(fileContent) - 3) :
        /\ fileContent[i] = "<" /\ fileContent[i + 1] = "/" /\ fileContent[i + 2] = tag
        /\ \E j \in (i + 3)..Len(fileContent) :
              /\ fileContent[j] = ">"
              /\ \A k \in (i + 3)..(j - 1) : IsSpace(fileContent[k])

isKmlOpeningOnly(fileContent) == TestOpening(fileContent, "kml")

isKml(fileContent) == TestOpening(fileContent, "kml") /\ TestClosing(fileContent, "kml")
isGpx(fileContent) == TestOpening(fileContent, "gpx") /\ TestClosing(fileContent, "gpx")

(***************************************************************************)
(* JavaScript values handed to the layer constructors: a string is         *)
(* [str |-> lexemes], a number [num |-> n], a boolean [bool |-> b].        *)
(***************************************************************************)
Str(lexemes) == [str |-> lexemes]
Num(n) == [num |-> n]
Bool(b) == [bool |-> b]
IsStr(v) == "str" \in DOMAIN v
IsNum(v) == "num" \in DOMAIN v
Truthy(v) ==
    /\ v # NULL
    /\ IsStr(v) => v.str # << >>
    /\ IsNum(v) => v.num # 0
    /\ ("bool" \in DOMAIN v) => v.bool

\* the text a template literal `${v}` gives
ToText(v) ==
    IF v = NULL THEN <<"null">>
    ELSE IF IsStr(v) THEN v.str
    ELSE IF IsNum(v) THEN <<"1">>
    ELSE IF v.bool THEN <<"true">> ELSE <<"false">>

\* str.split('/').pop(): what follows the last "/"
RECURSIVE LastSegment(_)
LastSegment(lexemes) ==
    IF lexemes = << >> THEN << >>
    ELSE IF lexemes[Len(lexemes)] = "/" THEN << >>
    ELSE Append(LastSegment(SubSeq(lexemes, 1, Len(lexemes) - 1)), lexemes[Len(lexemes)])

\* new KMLLayer(name, opacity, kmlFileUrl, fileId, adminId): the layer, or THREW
\* when kmlFileUrl.split is not a function
KMLLayer(name, opacity, kmlFileUrl, fileId, adminId) ==
    IF Truthy(fileId)
    THEN [type |-> "KML", name |-> name, opacity |-> opacity, kmlFileUrl |-> kmlFileUrl,
          adminId |-> adminId, fileId |-> fileId]
    ELSE IF IsStr(kmlFileUrl)
    THEN [type |-> "KML", name |-> name, opacity |-> opacity, kmlFileUrl |-> kmlFileUrl,
          adminId |-> adminId, fileId |-> Str(LastSegment(kmlFileUrl.str))]
    ELSE THREW

\* new GPXLayer(gpxFileUrl, visible, opacity, gpxData, gpxMetadata)
GPXLayer(gpxFileUrl, visible, opacity, gpxData, gpxMetadata) ==
    [type |-> "GPX", name |-> gpxFileUrl, opacity |-> opacity, gpxFileUrl |-> gpxFileUrl,
     visible |-> visible]

\* KMLLayer.getID(), and GPXLayer's composite key TYPE|sourceUrl
getID(layer) ==
    IF layer.type = "KML"
    THEN <<"KML", "|">> \o ToText(layer.kmlFileUrl) \o <<"|">> \o ToText(layer.name)
         \o (IF Truthy(layer.adminId)
             THEN <<"@", "adminId", "=">> \o ToText(layer.adminId) ELSE << >>)
    ELSE <<"GPX", "|">> \o ToText(layer.gpxFileUrl)

(***************************************************************************)
(* Extents [arr |-> <<minX, minY, maxX, maxY>>]; createEmpty() is the      *)
(* extent that contains nothing.                                           *)
(***************************************************************************)
Extent(minX, minY, maxX, maxY) == [arr |-> <<minX, minY, maxX, maxY>>]
emptyExtent == [empty |-> TRUE]
isExtentEmpty(extent) ==
    extent = emptyExtent \/ extent.arr[3] < extent.arr[1] \/ extent.arr[4] < extent.arr[2]
extendExtent(extent, other) ==
    IF extent = emptyExtent THEN other
    ELSE IF other = emptyExtent THEN extent
    ELSE Extent(Min(extent.arr[1], other.arr[1]), Min(extent.arr[2], other.arr[2]),
                Max(extent.arr[3], other.arr[3]), Max(extent.arr[4], other.arr[4]))

\* features.forEach((feature) => extendExtent(extent, feature.getGeometry().getExtent()))
RECURSIVE ExtendOver(_, _, _)
ExtendOver(features, i, extent) ==
    IF i > Len(features) THEN extent
    ELSE IF features[i] = NULL THEN THREW   \* getGeometry() is undefined
    ELSE ExtendOver(features, i + 1, extendExtent(extent, features[i]))

ExtentOrNull(extent) ==
    IF extent = THREW THEN THREW
    ELSE IF isExtentEmpty(extent) THEN NULL ELSE extent

\* getKmlExtent(content): features are the geometry extents of what
\* new KML().readFeatures(content) yields (NULL for a feature without geometry)
getKmlExtent(features) == ExtentOrNull(ExtendOver(features, 1, emptyExtent))

\* the bounds of the working projection
ProjectionBounds == Extent(0, 0, 4, 4)

\* getExtentForProjection(projection, extent): the part of extent inside the
\* projection's bounds, null when there is none
Intersects(a, b) ==
    /\ a.arr[1] <= b.arr[3] /\ a.arr[3] >= b.arr[1]
    /\ a.arr[2] <= b.arr[4] /\ a.arr[4] >= b.arr[2]
getExtentForProjection(projection, extent) ==
    IF extent = emptyExtent \/ ~Intersects(extent, projection) THEN NULL
    ELSE Extent(Max(extent.arr[1], projection.arr[1]), Max(extent.arr[2], projection.arr[2]),
                Min(extent.arr[3], projection.arr[3]), Min(extent.arr[4], projection.arr[4]))

(***************************************************************************)
(* handleFileContent(store, content, source).  A file is its content, the  *)
(* geometry extents of the features the KML reader finds in it, and the    *)
(* bounding box of its GPX tracks.  The result is how the call ended and   *)
(* the store dispatches it made, in order.                                 *)
(***************************************************************************)
Dispatch(type, payload) == [type |-> type, payload |-> payload]
Ended(outcome, dispatches) == [outcome |-> outcome, dispatches |-> dispatches]

\* lines 147-153
KmlProjected(layer, projectedExtent) ==
    IF projectedExtent = NULL THEN Ended("OutOfBoundsError", << >>)
    ELSE Ended("ok", << Dispatch("zoomToExtent", projectedExtent),
                        Dispatch("addLayer", layer) >>)

\* lines 143-146
KmlExtentChecked(layer, extent) ==
    IF extent = THREW THEN Ended("TypeError", << >>)
    ELSE IF extent = NULL THEN Ended("EmptyKMLError", << >>)
    ELSE KmlProjected(layer, getExtentForProjection(ProjectionBounds, extent))

\* line 142: layer = new KMLLayer(source, true, 1.0, null /* adminId */, content)
KmlLayerBuilt(file, layer) ==
    IF layer = THREW THEN Ended("TypeError", << >>)
    ELSE KmlExtentChecked(layer, getKmlExtent(file.features))

\* lines 155-164
GpxImported(layer, extent) ==
    Ended("ok", << Dispatch("zoomToExtent", extent), Dispatch("addLayer", layer) >>)

handleFileContent(file, source) ==
    IF isKml(file.content)
    THEN KmlLayerBuilt(file, KMLLayer(Str(source), Bool(TRUE), Num(1), NULL,
                                      Str(file.content)))
    ELSE IF isGpx(file.content)
    THEN GpxImported(GPXLayer(Str(source), Bool(TRUE), Num(1), Str(file.content), NULL),
                     getExtentForProjection(ProjectionBounds, file.bbox))
    ELSE Ended("Unsupported", << >>)

\* the store's addLayer: a layer whose ID is already active is not added again
addLayer(layers, layer) ==
    IF \E k \in 1..Len(layers) : getID(layers[k]) = getID(layer) THEN layers
    ELSE Append(layers, layer)

RECURSIVE LayersAfter(_, _, _)
LayersAfter(layers, dispatches, i) ==
    IF i > Len(dispatches) THEN layers
    ELSE IF dispatches[i].type = "addLayer"
    THEN LayersAfter(addLayer(layers, dispatches[i].payload), dispatches, i + 1)
    ELSE LayersAfter(layers, dispatches, i + 1)

(***************************************************************************)
(* The files a user can pick, and their sources.                           *)
(***************************************************************************)
MaxImports == 2

KmlDoc == <<"<", "kml", ">", "<", "/", "kml", ">">>
KmlSpaced == <<"<", "kml", ">", "<", "/", "kml", " ", " ", ">">>
KmlReversed == <<"<", "/", "kml", ">", "<", "kml">>
KmlLongOpening == <<"<", "kmlx", ">", "<", "/", "kml", ">">>
KmlOpeningOnly == <<"<", "kml", ">">>
KmlClosingOnly == <<"<", "/", "kml", ">">>
KmlLongClosing == <<"<", "kml", ">", "<", "/", "kmlx", ">">>
KmlNoBrackets == <<"kml", " ", "/", "kml">>
KmlUpperCase == <<"<", "KML", ">", "<", "/", "KML", ">">>
KmlBlankOpening == <<"<", " ", "kml", ">", "<", "/", "kml", ">">>
KmlGpxMixed == <<"<", "kml", ">", "<", "/", "gpx", ">">>
GpxDoc == <<"<", "gpx", ">", "<", "/", "gpx", ">">>
GpxReversed == <<"<", "/", "gpx", " ", ">", "<", "gpxx">>
GpxOpeningOnly == <<"<", "gpx", ">">>
HtmlDoc == <<"<", "html", ">", "Not", " ", "a", " ", "KML", "<", "/", "html", ">">>

InsideExtent == Extent(1, 1, 2, 2)
PartlyInsideExtent == Extent(3, 3, 6, 6)
OutsideExtent == Extent(5, 5, 6, 6)

File(content, features, bbox) == [content |-> content, features |-> features, bbox |-> bbox]

KmlFiles ==
    {File(KmlDoc, features, emptyExtent) :
        features \in { << >>, <<InsideExtent>>, <<OutsideExtent>>,
                       <<InsideExtent, OutsideExtent>>, <<NULL>> }}
    \cup {File(content, <<InsideExtent>>, emptyExtent) :
            content \in {KmlSpaced, KmlReversed, KmlLongOpening, KmlDoc \o GpxDoc}}
GpxFiles ==
    {File(GpxDoc, << >>, bbox) : bbox \in {InsideExtent, PartlyInsideExtent, OutsideExtent}}
    \cup {File(GpxReversed, << >>, InsideExtent)}
OtherFiles ==
    {File(content, << >>, emptyExtent) :
        content \in {KmlOpeningOnly, KmlClosingOnly, KmlLongClosing, KmlNoBrackets,
                     KmlUpperCase, KmlBlankOpening, KmlGpxMixed, GpxOpeningOnly,
                     HtmlDoc, << >>}}
Files == KmlFiles \cup GpxFiles \cup OtherFiles
Sources == { <<"a", ".", "kml">>, <<"dir", "/", "b", ".", "gpx">> }

InitImport ==
    /\ IdleImport /\ IdleIcon /\ IdleKml /\ IdleProfile /\ IdleCall /\ IdlePlugins

Sniffed(content) ==
    IF isKml(content) THEN "kml" ELSE IF isGpx(content) THEN "gpx" ELSE "none"

ImportDone(file, source, ended) ==
    /\ activeLayers' = LayersAfter(activeLayers, ended.dispatches, 1)
    /\ dispatched' = dispatched \o ended.dispatches
    /\ lastImport' = [count |-> lastImport.count + 1, file |-> file, source |-> source,
                      sniffed |-> Sniffed(file.content), outcome |-> ended.outcome,
                      layersBefore |-> activeLayers, dispatchedBefore |-> dispatched]

\* The user imports a file: handleFileContent(store, content, source)
ImportFile(file, source) ==
    /\ lastImport.count < MaxImports
    /\ ImportDone(file, source, handleFileContent(file, source))
    /\ UNCHANGED << iconVars, kmlVars, profileCalls, lastCall, pluginVars >>

NextImport == \E file \in Files, source \in Sources : ImportFile(file, source)
SpecImport == InitImport /\ [][NextImport]_vars

(***************************************************************************)
(* Properties of the file import.                                          *)
(***************************************************************************)
Imported == lastImport.count > 0
NothingDispatched ==
    dispatched = lastImport.dispatchedBefore /\ activeLayers = lastImport.layersBefore

\* the extent of the file's data, as its recognized format defines it
HasData(file, format) ==
    IF format = "kml" THEN getKmlExtent(file.features) \notin {NULL, THREW}
    ELSE file.bbox # emptyExtent
DataExtent(file, format) ==
    IF format = "kml" THEN getKmlExtent(file.features) ELSE file.bbox

\* the source a layer was imported from
SourceOf(layer) == IF layer.type = "KML" THEN layer.kmlFileUrl ELSE layer.gpxFileUrl
FormatOf(layer) == IF layer.type = "KML" THEN "kml" ELSE "gpx"
AlreadyActive(format, source, layers) ==
    \E k \in 1..Len(layers) :
        FormatOf(layers[k]) = format /\ SourceOf(layers[k]) = Str(source)

\* C5: no two active layers have the same ID, and an import of a KML or GPX
\* file with data inside the projection's bounds leaves the number of active
\* layers unchanged when its source is already active and adds one layer
\* otherwise.
C5_NoDuplicateLayer ==
    /\ \A j, k \in 1..Len(activeLayers) :
          j # k => getID(activeLayers[j]) # getID(activeLayers[k])
    /\ (/\ Imported
        /\ lastImport.sniffed # "none"
        /\ HasData(lastImport.file, lastImport.sniffed)
        /\ Intersects(DataExtent(lastImport.file, lastImport.sniffed), ProjectionBounds))
       => Len(activeLayers) =
            Len(lastImport.layersBefore)
            + (IF AlreadyActive(lastImport.sniffed, lastImport.source,
                                lastImport.layersBefore) THEN 0 ELSE 1)

\* C7: an import of content recognized as KML or GPX whose extent does not
\* intersect the projection's bounds ended with OutOfBoundsError and
\* dispatched nothing.
C7_OutOfBoundsAborts ==
    (/\ Imported
     /\ lastImport.sniffed # "none"
     /\ HasData(lastImport.file, lastImport.sniffed)
     /\ ~Intersects(DataExtent(lastImport.file, lastImport.sniffed), ProjectionBounds))
    => (lastImport.outcome = "OutOfBoundsError" /\ NothingDispatched)

\* C8: an import of content recognized as KML with no feature, or with an
\* empty combined extent, ended with EmptyKMLError and dispatched nothing.
C8_EmptyKmlAborts ==
    (/\ Imported
     /\ lastImport.sniffed = "kml"
     /\ getKmlExtent(lastImport.file.features) = NULL)
    => (lastImport.outcome = "EmptyKMLError" /\ NothingDispatched)

\* content contains the lexemes sub, one after the other
Contains(content, sub) ==
    \E i \in 1..(Len(content) - Len(sub) + 1) :
        SubSeq(content, i, i + Len(sub) - 1) = sub
OpeningTags(tag) == {<<"<", word>> : word \in {tag, tag \o "x"}}
ClosingTags(tag) ==
    {<<"<", "/", tag>> \o blanks \o <<">">> : blanks \in {<< >>, <<" ">>, <<" ", " ">>}}
HasTagPair(content, tag) ==
    /\ \E sub \in OpeningTags(tag) : Contains(content, sub)
    /\ \E sub \in ClosingTags(tag) : Contains(content, sub)

\* C9: content with neither a '<kml' opening and a '</kml>' closing nor a
\* '<gpx' opening and a '</gpx>' closing (blanks allowed before the '>') is
\* recognized as neither format and its import ends with the 'Unsupported
\* file' error and no dispatch; any other content, valid XML or not, is
\* recognized.
C9_UnsupportedContent ==
    Imported =>
        ((~HasTagPair(lastImport.file.content, "kml")
            /\ ~HasTagPair(lastImport.file.content, "gpx"))
         <=> (/\ lastImport.sniffed = "none"
              /\ lastImport.outcome = "Unsupported"
              /\ NothingDispatched))

C9_Witness ==
    /\ Imported
    /\ lastImport.file.content = HtmlDoc
    /\ lastImport.outcome = "Unsupported"
    /\ Len(lastImport.layersBefore) = 1
    /\ activeLayers = lastImport.layersBefore

(***************************************************************************)
(* profile(coordinates, fileExtension) of profile.api.js.  A promise is    *)
(* [state, value]; resolve and reject act on a pending promise only.       *)
(***************************************************************************)
MaxProfileCalls == 2

PendingPromise == [state |-> "pending", value |-> NULL]
resolve(promise, value) ==
    IF promise.state = "pending" THEN [state |-> "resolved", value |-> value] ELSE promise
reject(promise, reason) ==
    IF promise.state = "pending" THEN [state |-> "rejected", value |-> reason] ELSE promise

ProfilePoint(dist, coordinate, elevation) ==
    [dist |-> dist, coordinate |-> coordinate, elevation |-> elevation]
GeoAdminProfile(points) == [points |-> points]

parseProfileFromBackendResponse(backendResponse) ==
    GeoAdminProfile([k \in 1..Len(backendResponse) |->
                        ProfilePoint(backendResponse[k].dist,
                                     <<backendResponse[k].easting, backendResponse[k].northing>>,
                                     backendResponse[k].alts.COMB)])

\* the request axios is given
ProfileRequest(coordinates, fileExtension) ==
    [url |-> <<"profile", fileExtension>>, method |-> "POST",
     data |-> [type |-> "LineString", coordinates |-> coordinates]]

\* lines 226-230: if (!coordinates || coordinates.length === 0) reject(...)
CoordinatesChecked(promise, coordinates) ==
    IF coordinates = NULL \/ coordinates.arr = << >>
    THEN reject(promise, "Coordinates not provided")
    ELSE promise

\* lines 221-225: if (fileExtension !== '.json' && fileExtension !== '.csv') reject(...)
ExtensionChecked(promise, fileExtension) ==
    IF fileExtension # ".json" /\ fileExtension # ".csv"
    THEN reject(promise, "Not supported file extension")
    ELSE promise

\* the executor of the promise, up to the axios call: the promise it leaves
\* and the requests it sent
ProfileExecutor(coordinates, fileExtension) ==
    [coordinates |-> coordinates, fileExtension |-> fileExtension,
     promise |-> CoordinatesChecked(ExtensionChecked(PendingPromise, fileExtension),
                                    coordinates),
     requests |-> << ProfileRequest(coordinates, fileExtension) >>,
     answered |-> FALSE]

\* fileExtension = '.json' when the argument is omitted
profile(coordinates, fileExtension) ==
    ProfileExecutor(coordinates, IF fileExtension = NULL THEN ".json" ELSE fileExtension.s)

\* the .then and .catch callbacks of the axios call
ProfileAnswered(call, response) ==
    [call EXCEPT
        !.answered = TRUE,
        !.promise =
            IF response.failed THEN reject(call.promise, response.error)
            ELSE IF response.data # NULL
            THEN IF call.fileExtension = ".json"
                 THEN resolve(call.promise, parseProfileFromBackendResponse(response.data.arr))
                 ELSE resolve(call.promise, response.data)
            ELSE reject(call.promise, "Incorrect response while getting profile")]

RawData(dist, easting, northing, comb) ==
    [dist |-> dist, easting |-> easting, northing |-> northing, alts |-> [COMB |-> comb]]
BackendResponses ==
    { [failed |-> FALSE, error |-> "",
       data |-> [arr |-> << RawData(0, 1, 1, 400), RawData(10, 2, 1, 410) >>]],
      [failed |-> FALSE, error |-> "", data |-> NULL],
      [failed |-> TRUE, error |-> "Network Error", data |-> NULL] }

CoordinateLists ==
    { NULL, [arr |-> << >>], [arr |-> << <<1, 1>> >>], [arr |-> << <<1, 1>>, <<2, 1>> >>] }
FileExtensions == { NULL, [s |-> ".json"], [s |-> ".csv"], [s |-> ".xml"] }

InitProfile ==
    /\ IdleProfile /\ IdleIcon /\ IdleKml /\ IdleImport /\ IdleCall /\ IdlePlugins

\* A caller asks for a profile
ProfileCall(coordinates, fileExtension) ==
    /\ Len(profileCalls) < MaxProfileCalls
    /\ profileCalls' = Append(profileCalls, profile(coordinates, fileExtension))
    /\ UNCHANGED << iconVars, kmlVars, importVars, lastCall, pluginVars >>

\* The backend answers a request, or the request fails
BackendResponds(k, response) ==
    /\ profileCalls[k].requests # << >>
    /\ ~profileCalls[k].answered
    /\ profileCalls' = [profileCalls EXCEPT ![k] = ProfileAnswered(@, response)]
    /\ UNCHANGED << iconVars, kmlVars, importVars, lastCall, pluginVars >>

NextProfile ==
    \/ \E coordinates \in CoordinateLists, fileExtension \in FileExtensions :
          ProfileCall(coordinates, fileExtension)
    \/ \E k \in 1..Len(profileCalls), response \in BackendResponses :
          BackendResponds(k, response)
SpecProfile == InitProfile /\ [][NextProfile]_vars

\* the validation of the arguments, as the contract states it
InvalidProfileArguments(call) ==
    \/ call.coordinates = NULL
    \/ call.coordinates.arr = << >>
    \/ call.fileExtension \notin {".json", ".csv"}
ValidationErrors == {"Not supported file extension", "Coordinates not provided"}

\* C1: a profile() call with missing or empty coordinates, or with a file
\* extension other than '.json' and '.csv', has its promise rejected with the
\* validation error and sent no POST request.
C1_NoRequestOnInvalidArguments ==
    \A k \in 1..Len(profileCalls) :
        InvalidProfileArguments(profileCalls[k]) =>
            /\ profileCalls[k].promise.state = "rejected"
            /\ profileCalls[k].promise.value \in ValidationErrors
            /\ profileCalls[k].requests = << >>

(***************************************************************************)
(* Specification of the pure functions of kmlUtils.js: any arguments, then *)
(* the call.  lastCall holds the arguments and what the call returned.     *)
(***************************************************************************)
Called(fn, args, result) == [fn |-> fn, args |-> args, result |-> result]

ScaledImage(scale) == [isIconStyle |-> FALSE, scale |-> scale]
TypedFeatures ==
    {RawFeature("Feature", type, geometry, style) :
        type \in {NULL} \cup {TypeProp(str) : str \in TypeStrings},
        geometry \in {NULL, PointGeometry, LineGeometry, PolygonGeometry, MultiPointGeometry},
        style \in {NULL,
                   KmlStyle(NULL, BlueStroke, RedFill, NULL),
                   KmlStyle(ScaledImage(Rat(1, 1)), NULL, NULL, NULL),
                   KmlStyle(ScaledImage(Rat(0, 1)), BlueStroke, NULL, NULL),
                   KmlStyle(IconImage(SrcCurrent, Rat(3, 2), Size48, FALSE), NULL, NULL, NULL)}}

StyleColors == { [color |-> preset.rgb] : preset \in {RED, BLUE, GREEN} }
FillStyles ==
    {KmlStyle(NULL, stroke, fill, NULL) :
        stroke \in {NULL} \cup StyleColors, fill \in {NULL} \cup StyleColors}
GeometryTypes == {"Point", "LineString", "Polygon", "MultiPoint"}
ColoredIconArgs ==
    {IconArgs(<<"default">>, <<"marker">>,
              IconColorArg(preset.rgb[1], preset.rgb[2], preset.rgb[3]), FALSE) :
        preset \in {RED, BLUE, GREEN}}

\* A catalog whose default set holds several icons a legacy name can match
NamedCatalog ==
    [arr |-> << [name |-> <<"default">>,
                 icons |-> << CatalogIcon(<<"2", "-", "marker">>, <<"default">>),
                              CatalogIcon(<<"marker">>, <<"default">>),
                              CatalogIcon(<<"24", "-", "marker">>, <<"default">>) >>],
                [name |-> <<"babs">>,
                 icons |-> << CatalogIcon(<<"babs", "-", "2">>, <<"babs">>) >>] >>]
IconNames == { <<"marker">>, <<"2", "-", "marker">>, <<"babs", "-", "2">>, <<"marker", "(">> }
ParsedIconArgs ==
    {IconArgs(set, name, IconColorArg(255, 0, 0), isLegacy) :
        set \in UrlSets, name \in IconNames, isLegacy \in BOOLEAN}
SizedIconStyles ==
    {IconImage(SrcCurrent, Rat(1, 1), size, FALSE) : size \in {Size48, SizeZero, NULL}}

MaxRings == 3
Rings ==
    { << <<0, 0>>, <<2, 0>>, <<0, 2>>, <<0, 0>> >>,
      << <<1, 1>>, <<1, 0>>, <<0, 1>>, <<1, 1>> >>,
      << <<0, 0>>, <<4, 0>>, <<4, 4>>, <<0, 4>>, <<0, 0>> >> }
Polygons ==
    {[type |-> "Polygon", coordinates |-> rings] :
        rings \in UNION {[1..n -> Rings] : n \in 1..MaxRings}}
OtherGeometries ==
    { PointGeometry, LineGeometry, MultiPointGeometry,
      [type |-> "MultiPolygon", coordinates |-> << PolygonGeometry.coordinates >>] }

\* icon scales: absent, 0, NaN, the scales of the presets and others
IconScales ==
    { NULL, Rat(0, 1), Rat(0, 0), Rat(1, 1), Rat(3, 2), Rat(2, 1), Rat(6, 4),
      Rat(5, 2), Rat(3, 1), Rat(1, 2), Rat(9, 4) }

InitFunctions ==
    /\ IdleCall /\ IdlePlugins /\ IdleIcon /\ IdleKml /\ IdleImport /\ IdleProfile

\* getFeatureType(kmlFeature)
GetFeatureTypeCall(kmlFeature) ==
    /\ lastCall' = Called("getFeatureType", <<kmlFeature>>, getFeatureType(kmlFeature))
    /\ UNCHANGED << iconVars, kmlVars, importVars, profileCalls, pluginVars >>

\* getFillColor(style, geometryType, iconArgs)
GetFillColorCall(style, geometryType, iconArgs) ==
    /\ lastCall' = Called("getFillColor", <<style, geometryType, iconArgs>>,
                          getFillColor(style, geometryType, iconArgs))
    /\ UNCHANGED << iconVars, kmlVars, importVars, profileCalls, pluginVars >>

\* getIcon(iconArgs, iconStyle, availableIconSets)
GetIconCall(iconArgs, iconStyle, iconSets) ==
    /\ lastCall' = Called("getIcon", <<iconArgs, iconStyle, iconSets>>,
                          getIcon(iconArgs, iconStyle, iconSets).icon)
    /\ UNCHANGED << iconVars, kmlVars, importVars, profileCalls, pluginVars >>

\* generateIconFromStyle(iconStyle, iconArgs)
GenerateIconCall(iconStyle, iconArgs) ==
    /\ lastCall' = Called("generateIconFromStyle", <<iconStyle, iconArgs>>,
                          generateIconFromStyle(iconStyle, iconArgs).icon)
    /\ UNCHANGED << iconVars, kmlVars, importVars, profileCalls, pluginVars >>

ScaledIconStyles == {IconImage(SrcCurrent, scale, Size48, FALSE) : scale \in IconScales}
GeometryFeatures ==
    {RawFeature("Feature", NULL, geometry, NULL) : geometry \in Polygons \cup OtherGeometries}

\* getKmlFeatureCoordinates(feature)
GetKmlFeatureCoordinatesCall(feature) ==
    /\ lastCall' = Called("getKmlFeatureCoordinates", <<feature>>,
                          getKmlFeatureCoordinates(feature))
    /\ UNCHANGED << iconVars, kmlVars, importVars, profileCalls, pluginVars >>

\* getIconSize(iconStyle)
GetIconSizeCall(iconStyle) ==
    /\ lastCall' = Called("getIconSize", <<iconStyle>>, getIconSize(iconStyle))
    /\ UNCHANGED << iconVars, kmlVars, importVars, profileCalls, pluginVars >>

NextFunctions ==
    \/ \E kmlFeature \in TypedFeatures : GetFeatureTypeCall(kmlFeature)
    \/ \E iconStyle \in ScaledIconStyles : GetIconSizeCall(iconStyle)
    \/ \E feature \in GeometryFeatures : GetKmlFeatureCoordinatesCall(feature)
    \/ \E iconArgs \in {NULL} \cup ParsedIconArgs, iconStyle \in SizedIconStyles,
          iconSets \in {NULL, NamedCatalog} :
            GetIconCall(iconArgs, iconStyle, iconSets)
    \/ \E iconStyle \in {NULL} \cup SizedIconStyles,
          iconArgs \in {NULL} \cup ColoredIconArgs :
            GenerateIconCall(iconStyle, iconArgs)
    \/ \E style \in FillStyles, geometryType \in GeometryTypes,
          iconArgs \in {NULL} \cup ColoredIconArgs :
            GetFillColorCall(style, geometryType, iconArgs)
SpecFunctions == InitFunctions /\ [][NextFunctions]_vars

\* the explicit type a feature names, whatever its case; NULL when no valid one
ExplicitType(kmlFeature) ==
    IF kmlFeature.type = NULL THEN NULL
    ELSE IF kmlFeature.type.s \in {"marker", "MARKER"} THEN [val |-> "MARKER"]
    ELSE IF kmlFeature.type.s = "Annotation" THEN [val |-> "ANNOTATION"]
    ELSE IF kmlFeature.type.s = "linepolygon" THEN [val |-> "LINEPOLYGON"]
    ELSE IF kmlFeature.type.s = "measure" THEN [val |-> "MEASURE"]
    ELSE NULL

\* C13: getFeatureType returns the explicit type of a feature that names one
\* of the four types, in any case, whatever its geometry (or lack of one) and
\* its style are.
C13_ExplicitTypeWins ==
    (lastCall.fn = "getFeatureType" /\ ExplicitType(lastCall.args[1]) # NULL)
        => lastCall.result = ExplicitType(lastCall.args[1])

C13_Witness ==
    /\ lastCall.fn = "getFeatureType"
    /\ lastCall.args[1].type = TypeProp("measure")
    /\ lastCall.args[1].geometry = PointGeometry
    /\ lastCall.args[1].style # NULL
    /\ lastCall.args[1].style.image = ScaledImage(Rat(1, 1))
    /\ lastCall.result = [val |-> "MEASURE"]

\* the type the guessing rules give to a geometry kind and an image style
HasScaledImage(style) ==
    style # NULL /\ style.image # NULL /\ style.image.scale.n > 0
GuessedType(kmlFeature) ==
    IF kmlFeature.geometry # NULL /\ kmlFeature.geometry.type = "Point"
    THEN IF HasScaledImage(kmlFeature.style) THEN "MARKER" ELSE "ANNOTATION"
    ELSE IF kmlFeature.geometry # NULL
            /\ kmlFeature.geometry.type \in {"LineString", "Polygon"}
    THEN "LINEPOLYGON"
    ELSE "MARKER"

\* C14: for a feature without a valid explicit type getFeatureType returns one
\* of the four types: MARKER or ANNOTATION for a Point, with or without an
\* image of scale > 0, LINEPOLYGON for a LineString or a Polygon, MARKER for
\* anything else.
C14_GuessedTypeAlwaysResolved ==
    (lastCall.fn = "getFeatureType" /\ ExplicitType(lastCall.args[1]) = NULL)
        => lastCall.result = [val |-> GuessedType(lastCall.args[1])]

\* the preset color with the channels rgb
Preset(rgb) == CHOOSE preset \in {RED, BLUE, GREEN} : preset.rgb = rgb
IconRgb(iconArgs) == <<iconArgs.color.r, iconArgs.color.g, iconArgs.color.b>>

\* C15: getFillColor gives (a) the icon color for a Point with icon args, even
\* with a stroke; (b) else the stroke color for a LineString or a Point with
\* a stroke; (c) else the fill color for a Polygon with a fill, whatever its
\* stroke; (d) else RED.
C15_FillColorOrder ==
    lastCall.fn = "getFillColor" =>
        LET style == lastCall.args[1]
            type == lastCall.args[2]
            iconArgs == lastCall.args[3]
            a == type = "Point" /\ iconArgs # NULL
            b == ~a /\ type \in {"LineString", "Point"} /\ style.stroke # NULL
            c == type = "Polygon" /\ style.fill # NULL
        IN  /\ a => lastCall.result = Preset(IconRgb(iconArgs))
            /\ b => lastCall.result = Preset(style.stroke.color)
            /\ c => lastCall.result = Preset(style.fill.color)
            /\ ~(a \/ b \/ c) => lastCall.result = RED

C15_Witness ==
    /\ lastCall.fn = "getFillColor"
    /\ lastCall.args[2] = "Point"
    /\ lastCall.args[3] # NULL /\ IconRgb(lastCall.args[3]) = BLUE.rgb
    /\ lastCall.args[1].stroke = [color |-> GREEN.rgb]
    /\ lastCall.result = BLUE

\* The icons of the set called setName in the catalog, << >> when there is
\* no catalog or no such set
IconsOfSet(iconSets, setName) ==
    IF iconSets = NULL \/ \A k \in 1..Len(iconSets.arr) : iconSets.arr[k].name # setName
    THEN << >>
    ELSE iconSets.arr[CHOOSE k \in 1..Len(iconSets.arr) :
                        /\ iconSets.arr[k].name = setName
                        /\ \A q \in 1..(k - 1) : iconSets.arr[q].name # setName].icons

\* name is parsed, or parsed after a "<digits>-" prefix when legacy
NameMatches(iconArgs, iconName) ==
    \/ iconName = iconArgs.name
    \/ iconArgs.isLegacy /\ \E d \in DigitToks : iconName = <<d, "-">> \o iconArgs.name

\* C16: getIcon never throws; it returns null only without icon args; it
\* returns the first icon of the named set of the catalog whose name is the
\* parsed name (after an optional "<digits>-" prefix when legacy), and the
\* icon synthesized from the URL when there is no such icon.
C16_IconFallbackChain ==
    lastCall.fn = "getIcon" =>
        LET iconArgs == lastCall.args[1]
            iconStyle == lastCall.args[2]
            icons == IF iconArgs = NULL THEN << >>
                     ELSE IconsOfSet(lastCall.args[3], iconArgs.set)
            hits == {k \in 1..Len(icons) : NameMatches(iconArgs, icons[k].name)}
        IN  /\ lastCall.result # SYNTAX_ERROR
            /\ lastCall.result = NULL <=> iconArgs = NULL
            /\ iconArgs # NULL /\ hits = {} =>
                   /\ lastCall.result.name = iconArgs.name
                   /\ lastCall.result.imageURL = iconStyle.src
                   /\ lastCall.result.iconSetName = iconArgs.set
            /\ hits # {} =>
                   lastCall.result = icons[CHOOSE k \in hits : \A q \in hits : k <= q]

\* C17: the anchor of the synthesized icon is anchor[i] / size[i] when no
\* component of the size is zero, [0, 0] when the size has a zero component
\* or there is no size; no component of it is non-finite.
C17_AnchorIsFinite ==
    lastCall.fn = "generateIconFromStyle" /\ lastCall.result # NULL =>
        LET anchor == lastCall.args[1].anchor.arr
            size == lastCall.args[1].size
            degenerate == size = NULL \/ size.arr[1] = 0 \/ size.arr[2] = 0
            result == lastCall.result.anchor
        IN  /\ \A i \in 1..2 : result[i].d # 0
            /\ \A i \in 1..2 :
                   RatEq(result[i], IF degenerate THEN Rat(0, 1)
                                    ELSE RatDivInt(anchor[i], size.arr[i]))

(***************************************************************************)
(* Profile statistics (profile.api.js, GeoAdminProfile).  A JavaScript     *)
(* number is a binary floating point number and every operation rounds     *)
(* its exact result to the nearest one, ties to the even mantissa.  The    *)
(* model keeps MantissaBits bits of mantissa where a double keeps 53; the  *)
(* exponent is not bounded.  Float(m, e) is m * 2^e, with m = 0 and e = 0  *)
(* for zero and 2^(MantissaBits-1) <= |m| < 2^MantissaBits otherwise.      *)
(***************************************************************************)
MantissaBits == 3
MaxPoints == 3

Pow2(k) == 2 ^ k
\* the number of bits of n, for 0 <= n < 2^30
BitLen(n) == IF n = 0 THEN 0 ELSE CHOOSE bits \in 1..30 : Pow2(bits - 1) <= n /\ n < Pow2(bits)
Abs(n) == IF n < 0 THEN 0 - n ELSE n
Sign(n) == IF n < 0 THEN 0 - 1 ELSE 1

Float(m, e) == [m |-> m, e |-> e]
Zero == Float(0, 0)

\* n / 2^k for n >= 0 and k > 0, rounded to the nearest integer, ties to even
RoundShift(n, k) ==
    IF 2 * (n % Pow2(k)) > Pow2(k)
       \/ (2 * (n % Pow2(k)) = Pow2(k) /\ (n \div Pow2(k)) % 2 = 1)
    THEN (n \div Pow2(k)) + 1
    ELSE n \div Pow2(k)

NormRounded(sign, hi, e) ==
    IF hi = Pow2(MantissaBits) THEN Float(sign * Pow2(MantissaBits - 1), e + 1)
    ELSE Float(sign * hi, e)

NormShift(sign, n, e, k) ==
    IF n = 0 THEN Zero
    ELSE IF k <= 0 THEN Float(sign * n * Pow2(0 - k), e + k)
    ELSE NormRounded(sign, RoundShift(n, k), e + k)

\* the floating point number nearest to m * 2^e
Norm(m, e) ==
    IF m = 0 THEN Zero
    ELSE NormShift(Sign(m), Abs(m), e, BitLen(Abs(m)) - MantissaBits)

FromInt(n) == Norm(n, 0)
\* TLC evaluates the argument of an operator when it is first used: the
\* operators that accumulate a number test it with Evaluated, so that it is a
\* number, and not a pending computation, that goes into the next step
Evaluated(a) == a.m \in Int
Neg(a) == Float(0 - a.m, a.e)

\* a + b for a.e >= b.e; an operand below a quarter of the last place of the
\* other one does not change the rounded sum
AddOrdered(a, b) ==
    IF a.e - b.e > MantissaBits + 2 THEN a
    ELSE Norm(a.m * Pow2(a.e - b.e) + b.m, b.e)

Add(a, b) ==
    IF a.m = 0 THEN b
    ELSE IF b.m = 0 THEN a
    ELSE IF a.e >= b.e THEN AddOrdered(a, b)
    ELSE AddOrdered(b, a)

Sub(a, b) == Add(a, Neg(b))
Mul(a, b) == Norm(a.m * b.m, a.e + b.e)
Less(a, b) == Evaluated(a) /\ Evaluated(b) /\ Sub(a, b).m < 0

\* n / d with a last bit that says whether the division left a remainder
DivQ(sign, n, d, e) ==
    Norm(sign * (2 * (n \div d) + (IF n % d = 0 THEN 0 ELSE 1)), e - 1)

\* a / b for b # 0
Div(a, b) ==
    IF ~Evaluated(b) \/ a.m = 0 THEN Zero
    ELSE DivQ(Sign(a.m) * Sign(b.m), Abs(a.m) * Pow2(MantissaBits + 2), Abs(b.m),
              a.e - b.e - (MantissaBits + 2))

\* Math.pow(a, i) for an integer i >= 0
RECURSIVE PowFrom(_, _, _)
PowFrom(a, i, power) ==
    IF i = 0 \/ ~Evaluated(power) THEN power ELSE PowFrom(a, i - 1, Mul(power, a))
Pow(a, i) == IF Evaluated(a) THEN PowFrom(a, i, FromInt(1)) ELSE a

\* Math.sqrt(a) for a >= 0: the integer square root of the mantissa moved to
\* an even exponent, with a last bit that says whether it is exact
SqrtOf(m, e, root) ==
    Norm(2 * root + (IF root * root = m THEN 0 ELSE 1), (e \div 2) - 1)
SqrtEven(m, e) ==
    SqrtOf(m, e, CHOOSE root \in 0..Pow2(MantissaBits + 2) :
                    root * root <= m /\ m < (root + 1) * (root + 1))
Sqrt(a) ==
    IF a.m = 0 THEN Zero
    ELSE IF (a.e - (MantissaBits + 3)) % 2 = 0
    THEN SqrtEven(a.m * Pow2(MantissaBits + 3), a.e - (MantissaBits + 3))
    ELSE SqrtEven(a.m * Pow2(MantissaBits + 4), a.e - (MantissaBits + 4))

\* Math.round(a): floor(a + 1/2)
MathRound(a) ==
    IF a.e >= 0 THEN FromInt(a.m * Pow2(a.e))
    ELSE IF 0 - a.e > MantissaBits + 1 THEN Zero
    ELSE FromInt((2 * a.m + Pow2(0 - a.e)) \div Pow2(1 - a.e))

Math_abs(a) == Float(Abs(a.m), a.e)
Math_max2(a, b) == IF Less(a, b) THEN b ELSE a
Math_min2(a, b) == IF Less(b, a) THEN b ELSE a

\* the number literal digits * 10^(-places), to the precision of the model
Literal(digits, places) == Div(FromInt(digits), Pow(FromInt(10), places))

\* get length, get hasData
length(points) == Len(points)
\* A bug the guard could have: one point counted as data
hasDataOnePoint(points) == length(points) >= 1
hasData(points) == length(points) >= 2

\* (this.hasData && this.points[this.length - 1].dist) || 0
maxDist(points) ==
    IF hasData(points) /\ points[length(points)].dist.m # 0
    THEN points[length(points)].dist
    ELSE Zero

\* Math.max(...) and Math.min(...) of the elevations from point i on
RECURSIVE MaxFrom(_, _, _)
MaxFrom(points, i, acc) ==
    IF i > Len(points) \/ ~Evaluated(acc) THEN acc
    ELSE MaxFrom(points, i + 1, Math_max2(acc, points[i].elevation))
RECURSIVE MinFrom(_, _, _)
MinFrom(points, i, acc) ==
    IF i > Len(points) \/ ~Evaluated(acc) THEN acc
    ELSE MinFrom(points, i + 1, Math_min2(acc, points[i].elevation))

maxElevation(points) ==
    IF ~hasData(points) THEN Zero ELSE MaxFrom(points, 2, points[1].elevation)
minElevation(points) ==
    IF ~hasData(points) THEN Zero ELSE MinFrom(points, 2, points[1].elevation)

elevationDifference(points) ==
    IF ~hasData(points) THEN Zero
    ELSE Sub(points[Len(points)].elevation, points[1].elevation)

\* points.reduce(..., 0): the callback from index i on (index 0 is skipped)
RECURSIVE AscentFrom(_, _, _)
AscentFrom(points, i, totalAscent) ==
    IF i > Len(points) \/ ~Evaluated(totalAscent) THEN totalAscent
    ELSE AscentFrom(points, i + 1,
                    Add(totalAscent,
                        Math_max2(Sub(points[i].elevation, points[i - 1].elevation), Zero)))
totalAscent(points) == AscentFrom(points, 2, Zero)

RECURSIVE DescentFrom(_, _, _)
DescentFrom(points, i, totalDescent) ==
    IF i > Len(points) \/ ~Evaluated(totalDescent) THEN totalDescent
    ELSE DescentFrom(points, i + 1,
                     Sub(totalDescent,
                         Math_min2(Sub(points[i].elevation, points[i - 1].elevation), Zero)))
totalDescent(points) == Math_abs(DescentFrom(points, 2, Zero))

\* Math.sqrt(Math.pow(elevationDelta, 2) + Math.pow(distanceDelta, 2))
Hypotenuse(elevationDelta, distanceDelta) ==
    Sqrt(Add(Pow(elevationDelta, 2), Pow(distanceDelta, 2)))
RECURSIVE SlopeFrom(_, _, _)
SlopeFrom(points, i, sumSlopeDist) ==
    IF i > Len(points) \/ ~Evaluated(sumSlopeDist) THEN sumSlopeDist
    ELSE SlopeFrom(points, i + 1,
                   Add(sumSlopeDist,
                       Hypotenuse(Sub(points[i].elevation, points[i - 1].elevation),
                                  Sub(points[i].dist, points[i - 1].dist))))
slopeDistance(points) ==
    IF ~hasData(points) THEN Zero ELSE SlopeFrom(points, 2, Zero)

\* Constants of the formula (schweizmobil)
arrConstants ==
    << Literal(14271, 3), Literal(36991, 4), Literal(25922, 4), Literal(0 - 14384, 4),
       Literal(32105, 5), Literal(81542, 5), Literal(0 - 90261, 6), Literal(0 - 20757, 5),
       Literal(10192, 6), Literal(28588, 6), Literal(0 - 57466, 8), Literal(0 - 21842, 7),
       Literal(15176, 9), Literal(86894, 9), Literal(0 - 13584, 11), Literal(0 - 14026, 10) >>

\* arrConstants.forEach((constants, i) => minutesPerKilometer += constants * Math.pow(slope, i)):
\* power is Math.pow(slope, i), kept from one constant to the next
RECURSIVE PolynomialFrom(_, _, _, _)
PolynomialFrom(slope, i, power, minutesPerKilometer) ==
    IF i > Len(arrConstants) \/ ~Evaluated(power) \/ ~Evaluated(minutesPerKilometer)
    THEN minutesPerKilometer
    ELSE PolynomialFrom(slope, i + 1, Mul(power, slope),
                        Add(minutesPerKilometer, Mul(arrConstants[i], power)))

minutesPerKilometer(slope) ==
    IF Less(FromInt(0 - 4), slope) /\ Less(slope, FromInt(4))
    THEN PolynomialFrom(slope, 1, Pow(slope, 0), Zero)
    ELSE IF Less(Zero, slope) THEN Mul(FromInt(17), slope)
    ELSE Mul(FromInt(0 - 9), slope)

\* slope = (elevationDelta * 10.0) / distanceDelta
TimeOfSlope(distanceDelta, elevationDelta) ==
    Div(Mul(distanceDelta,
            minutesPerKilometer(Div(Mul(elevationDelta, FromInt(10)), distanceDelta))),
        FromInt(1000))

TimeOfDeltas(distanceDelta, elevationDelta) ==
    IF distanceDelta.m = 0 THEN Zero   \* !distanceDelta
    ELSE TimeOfSlope(distanceDelta, elevationDelta)

\* A bug the index test could have: the final pair counted too
ContributesAllPairs(index, pointsLength) == index < pointsLength - 1
\* index < points.length - 2, index counted from 0
Contributes(index, pointsLength) == index < pointsLength - 2

\* the callback of points.map at the point numbered k (index k - 1)
HikingTimeOfPoint(points, k) ==
    IF Contributes(k - 1, Len(points))
    THEN TimeOfDeltas(Sub(points[k + 1].dist, points[k].dist),
                      Sub(points[k + 1].elevation, points[k].elevation))
    ELSE Zero

\* .reduce((a, b) => a + b) without an initial value
RECURSIVE HikingFrom(_, _, _)
HikingFrom(points, k, a) ==
    IF k > Len(points) \/ ~Evaluated(a) THEN a
    ELSE HikingFrom(points, k + 1, Add(a, HikingTimeOfPoint(points, k)))

hikingTime(points) ==
    IF ~hasData(points) THEN Zero
    ELSE MathRound(HikingFrom(points, 2, HikingTimeOfPoint(points, 1)))

\* every statistic of a profile
Statistics(points) ==
    [maxDist |-> maxDist(points), maxElevation |-> maxElevation(points),
     minElevation |-> minElevation(points),
     elevationDifference |-> elevationDifference(points),
     totalAscent |-> totalAscent(points), totalDescent |-> totalDescent(points),
     slopeDistance |-> slopeDistance(points), hikingTime |-> hikingTime(points)]

\* new GeoAdminProfile(points) and its getters
ProfileOf(points) == Called("GeoAdminProfile", <<points>>, Statistics(points))

Dists == { FromInt(0), FromInt(16), FromInt(1000) }
Elevations == { FromInt(1), FromInt(Pow2(MantissaBits) + 2), FromInt(Pow2(MantissaBits) + 4) }
ProfilePoints ==
    {ProfilePoint(dist, <<1, 1>>, elevation) : dist \in Dists, elevation \in Elevations}

InitStatistics ==
    /\ lastCall = ProfileOf(<< >>)
    /\ IdleIcon /\ IdleKml /\ IdleImport /\ IdleProfile /\ IdlePlugins

\* points.push(new ProfilePoint(...)); the profile of the points pushed so far
PointsPush(point) ==
    /\ Len(lastCall.args[1]) < MaxPoints
    /\ lastCall' = ProfileOf(Append(lastCall.args[1], point))
    /\ UNCHANGED << iconVars, kmlVars, importVars, profileCalls, pluginVars >>

NextStatistics == \E point \in ProfilePoints : PointsPush(point)

SpecStatistics == InitStatistics /\ [][NextStatistics]_vars

\* C18: for every profile of at least two points, totalAscent minus
\* totalDescent is elevationDifference.
C18_AscentMinusDescent ==
    Len(lastCall.args[1]) >= 2 =>
        Sub(lastCall.result.totalAscent, lastCall.result.totalDescent)
            = lastCall.result.elevationDifference

\* C19: for a profile of no point or of one point, every statistic is 0,
\* whatever the distance and the elevation of the point.
C19_NoDataStatistics ==
    Len(lastCall.args[1]) <= 1 =>
        /\ lastCall.result.maxDist = Zero
        /\ lastCall.result.maxElevation = Zero
        /\ lastCall.result.minElevation = Zero
        /\ lastCall.result.elevationDifference = Zero
        /\ lastCall.result.totalAscent = Zero
        /\ lastCall.result.totalDescent = Zero
        /\ lastCall.result.slopeDistance = Zero
        /\ lastCall.result.hikingTime = Zero

C19_Witness ==
    /\ Len(lastCall.args[1]) = 1
    /\ lastCall.args[1][1].dist # Zero
    /\ lastCall.args[1][1].elevation # Zero
    /\ lastCall.result.maxElevation = Zero
    /\ lastCall.result.maxDist = Zero

\* C20: the final pair of points never contributes to hikingTime: replacing
\* the last point by any other point leaves hikingTime as it is, a profile
\* of two points has hikingTime 0, and when every pair but the final one has
\* a zero distance delta hikingTime is 0.
C20_FinalPairNeverContributes ==
    Len(lastCall.args[1]) >= 2 =>
        LET points == lastCall.args[1]
            n == Len(points)
        IN  /\ \A point \in ProfilePoints :
                   hikingTime([points EXCEPT ![n] = point]) = lastCall.result.hikingTime
            /\ n = 2 => lastCall.result.hikingTime = Zero
            /\ (\A k \in 1..(n - 2) : points[k + 1].dist = points[k].dist)
                   => lastCall.result.hikingTime = Zero

C20_Witness ==
    /\ Len(lastCall.args[1]) = 3
    /\ lastCall.result.hikingTime # Zero
    /\ lastCall.args[1][3].dist # lastCall.args[1][2].dist
    /\ lastCall.args[1][3].elevation # lastCall.args[1][2].elevation

\* C21: getKmlFeatureCoordinates gives, for a Polygon of one ring or more,
\* the coordinate list of its first ring (same vertices, same order, same
\* length) however many rings there are, and for every other kind of
\* geometry the coordinates of the geometry as they are.
C21_FirstRingOfPolygon ==
    lastCall.fn = "getKmlFeatureCoordinates" =>
        LET geometry == lastCall.args[1].geometry
            ring == geometry.coordinates[1]
        IN  IF geometry.type = "Polygon"
            THEN /\ Len(lastCall.result) = Len(ring)
                 /\ \A v \in 1..Len(ring) : lastCall.result[v] = ring[v]
            ELSE lastCall.result = geometry.coordinates

C21_Witness ==
    /\ lastCall.fn = "getKmlFeatureCoordinates"
    /\ lastCall.args[1].geometry.type = "Polygon"
    /\ Len(lastCall.args[1].geometry.coordinates) = 3
    /\ lastCall.args[1].geometry.coordinates[3] # lastCall.args[1].geometry.coordinates[1]
    /\ lastCall.result = lastCall.args[1].geometry.coordinates[1]

\* the presets of the table whose iconScale is the scale
PresetsOfScale(scale) ==
    {k \in 1..Len(allStylingSizes) :
        scale # NULL /\ RatEq(allStylingSizes[k].iconScale, scale)}

\* C22: getIconSize gives a member of allStylingSizes: the preset whose
\* iconScale is the scale of the icon when there is one, SMALL when the
\* scale is absent, zero or the scale of no preset; never null.
C22_IconSizeIsAPreset ==
    lastCall.fn = "getIconSize" =>
        LET scale == lastCall.args[1].scale
        IN  /\ \E k \in 1..Len(allStylingSizes) : lastCall.result = allStylingSizes[k]
            /\ \A k \in PresetsOfScale(scale) : lastCall.result = allStylingSizes[k]
            /\ PresetsOfScale(scale) = {} => lastCall.result = SMALL

C22_Witness ==
    /\ lastCall.fn = "getIconSize"
    /\ lastCall.args[1].scale = Rat(5, 2)
    /\ lastCall.result = SMALL

(***************************************************************************)
(* The layers config plugin (load-layersconfig-on-lang-change.js).  Every  *)
(* call of loadLayersAndTopicsConfigAndDispatchToStore is an entry of      *)
(* configLoads: the language it read from the store when it was called     *)
(* and the await it is suspended at.  The code between two awaits runs     *)
(* without interruption and is one action.                                 *)
(***************************************************************************)
MaxLangChanges == 2
Langs == {"en", "de", "fr"}

Layer(id, language) == [id |-> id, lang |-> language]
\* what the backend answers for a language
BackendLayersConfig(language) ==
    << Layer("ch.swisstopo.swissimage", language), Layer("ch.babs.kulturgueter", language) >>
BackendTopics(language) == << [id |-> "ech", lang |-> language] >>

\* lines 42-61: the config with SWISSIMAGE added as a background for 3D
WithSwissimage3d(layersConfig) ==
    LET IsSwissimage(layer) == layer.id = "ch.swisstopo.swissimage"
        swissimage == Find(layersConfig, IsSwissimage)
    IN  IF swissimage = NULL THEN layersConfig
        ELSE Append(layersConfig, Layer("ch.swisstopo.swissimage_3d", swissimage.lang))

Load(language, dispatcher, pc) == [lang |-> language, dispatcher |-> dispatcher, pc |-> pc]
ConfigDispatch(type, language, dispatcher, value) ==
    [type |-> type, lang |-> language, dispatcher |-> dispatcher, value |-> value]

\* !layersConfigByLang[lang]
CacheMiss(cache, language) == cache[language] = NULL

\* loadLayersAndTopicsConfigAndDispatchToStore up to its first await: it reads
\* the language, and loadLayersConfig asks the backend unless the cache has it
StartLoad(language, dispatcher) ==
    IF CacheMiss(layersConfigByLang, language)
    THEN /\ backendRequests' = Append(backendRequests, language)
         /\ configLoads' = Append(configLoads, Load(language, dispatcher, "layers"))
    ELSE /\ backendRequests' = backendRequests
         /\ configLoads' = Append(configLoads, Load(language, dispatcher, "cached"))

InitConfig ==
    /\ lang \in Langs
    /\ currentTopic \in {NULL, [id |-> "ech"]}
    /\ layersConfigByLang = [language \in Langs |-> NULL]
    /\ configLoads = << Load(lang, "app-init", "layers") >>
    /\ backendRequests = << lang >>
    /\ configDispatches = << >>
    /\ IdleCore /\ IdleMouse /\ IdleGeo

\* the mutation SET_LANG_MUTATION_KEY and the subscriber of the plugin
LangChange(language) ==
    /\ language # lang
    /\ Len(configLoads) <= MaxLangChanges
    /\ lang' = language
    /\ StartLoad(language, "load-layersconfig-on-lang-change")
    /\ UNCHANGED << currentTopic, layersConfigByLang, configDispatches, coreVars, mouseVars, geoVars >>

\* loadLayersConfigFromBackend answers: lines 29-30 and 38-39
LayersConfigLoaded(i) ==
    /\ configLoads[i].pc = "layers"
    /\ layersConfigByLang' =
           [layersConfigByLang EXCEPT ![configLoads[i].lang] =
               [arr |-> BackendLayersConfig(configLoads[i].lang)]]
    /\ configLoads' = [configLoads EXCEPT ![i].pc = "topics"]
    /\ UNCHANGED << lang, currentTopic, backendRequests, configDispatches, coreVars, mouseVars, geoVars >>

\* the cached config is returned: lines 32 and 38-39
CachedConfigReturned(i) ==
    /\ configLoads[i].pc = "cached"
    /\ configLoads' = [configLoads EXCEPT ![i].pc = "topics"]
    /\ UNCHANGED << lang, currentTopic, layersConfigByLang, backendRequests,
                    configDispatches, coreVars, mouseVars, geoVars >>

\* loadTopicsFromBackend answers: lines 42-82
TopicsLoaded(i) ==
    /\ configLoads[i].pc = "topics"
    /\ configDispatches' =
           configDispatches \o
           << ConfigDispatch("setLayerConfig", configLoads[i].lang, configLoads[i].dispatcher,
                             WithSwissimage3d(BackendLayersConfig(configLoads[i].lang))),
              ConfigDispatch("setTopics", configLoads[i].lang, configLoads[i].dispatcher,
                             BackendTopics(configLoads[i].lang)) >>
           \o (IF currentTopic # NULL THEN << >>
               ELSE << ConfigDispatch("changeTopic", configLoads[i].lang,
                                      configLoads[i].dispatcher,
                                      BackendTopics(configLoads[i].lang)[1]) >>)
    /\ configLoads' =
           [configLoads EXCEPT ![i] =
               IF currentTopic # NULL
               THEN [@ EXCEPT !.pc = "tree", !.lang = lang]   \* line 67: the language now
               ELSE [@ EXCEPT !.pc = "done"]]
    /\ UNCHANGED << lang, currentTopic, layersConfigByLang, backendRequests, coreVars, mouseVars, geoVars >>

\* loadTopicTreeForTopic answers: lines 71-75
TopicTreeLoaded(i) ==
    /\ configLoads[i].pc = "tree"
    /\ configDispatches' =
           configDispatches \o
           << ConfigDispatch("setTopicTree", configLoads[i].lang,
                             configLoads[i].dispatcher, << >>),
              ConfigDispatch("setTopicTreeOpenedThemesIds", configLoads[i].lang,
                             configLoads[i].dispatcher, << >>) >>
    /\ configLoads' = [configLoads EXCEPT ![i].pc = "done"]
    /\ UNCHANGED << lang, currentTopic, layersConfigByLang, backendRequests, coreVars, mouseVars, geoVars >>

\* a backend request is rejected: the catch of line 83
LoadFailed(i) ==
    /\ configLoads[i].pc \in {"layers", "topics", "tree"}
    /\ configLoads' = [configLoads EXCEPT ![i].pc = "failed"]
    /\ UNCHANGED << lang, currentTopic, layersConfigByLang, backendRequests,
                    configDispatches, coreVars, mouseVars, geoVars >>

NextConfig ==
    \/ \E language \in Langs : LangChange(language)
    \/ \E i \in 1..Len(configLoads) : LayersConfigLoaded(i)
    \/ \E i \in 1..Len(configLoads) : CachedConfigReturned(i)
    \/ \E i \in 1..Len(configLoads) : TopicsLoaded(i)
    \/ \E i \in 1..Len(configLoads) : TopicTreeLoaded(i)
    \/ \E i \in 1..Len(configLoads) : LoadFailed(i)

SpecConfig == InitConfig /\ [][NextConfig]_vars

\* C23: the layers config of a language is asked from the backend at most once.
C23_OneRequestPerLanguage ==
    \A language \in Langs :
        Cardinality({k \in 1..Len(backendRequests) : backendRequests[k] = language}) <= 1

\* the last dispatch of a type, NULL when there is none
LastDispatch(type) ==
    LET of == {k \in 1..Len(configDispatches) : configDispatches[k].type = type}
    IN  IF of = {} THEN NULL ELSE configDispatches[MaxOf(of)]

\* C27: once every load has completed, the layers config and the topics last
\* dispatched are those of the language of the store.
C27_LastConfigIsOfCurrentLanguage ==
    (\A i \in 1..Len(configLoads) : configLoads[i].pc = "done") =>
        /\ LastDispatch("setLayerConfig").lang = lang
        /\ LastDispatch("setTopics").lang = lang

(***************************************************************************)
(* useMouseOnMap (src/unnamed/part_001).  The four flags are the `let`s of *)
(* the composable.  A timer of setTimeout is named by the number of the    *)
(* pointer-down that set it; timers of one delay fire in the order they    *)
(* were set, and the passing of the 700 ms is the firing of the timer.     *)
(* mouseEvents keeps the events and the dispatches in the order they       *)
(* happened; the click of a pointer-up is written before its "up".         *)
(***************************************************************************)
MaxMouseEvents == 5
msBeforeTriggeringLocationPopup == 700

MouseEvent(event, press) == [event |-> event, press |-> press]
Click(clickType, press) == [event |-> "click", clickType |-> clickType, press |-> press]
Downs == Cardinality({k \in 1..Len(mouseEvents) : mouseEvents[k].event = "down"})
Without(timers, id) == LET Other(t) == t # id IN SelectSeq(timers, Other)

\* onMouseMove without its first if: the position is kept
onMouseMoveKeepsPosition(down, still) == still
\* lines 87-89: what isStillOnStartingPosition is after a move
onMouseMove(down, still) == IF down THEN FALSE ELSE still

InitMouse ==
    /\ IdleMouse
    /\ geolocation \in [active : BOOLEAN, tracking : BOOLEAN, denied : {FALSE},
                        position : {"0,0"}, accuracy : {"none"}]
    /\ geolocationWatcher = NULL /\ watchers = {} /\ positionRequests = 0 /\ watcherIds = 0
    /\ IdleCore /\ IdleConfig

\* lines 34-46
OnLeftClickDown ==
    /\ Len(mouseEvents) < MaxMouseEvents
    /\ isPointerDown' = TRUE
    /\ isStillOnStartingPosition' = TRUE
    /\ contextMenuTimeout' = Downs + 1
    /\ timeouts' = Append(timeouts, Downs + 1)
    /\ mouseEvents' = Append(mouseEvents, MouseEvent("down", Downs + 1))
    /\ UNCHANGED << hasPointerDownTriggeredLocationPopup, geoVars, configVars, coreVars >>

\* lines 39-45: the callback of the timer, with the arguments of its pointer-down
ContextMenuTimeoutFires ==
    /\ timeouts # << >>
    /\ timeouts' = Tail(timeouts)
    /\ IF isStillOnStartingPosition
       THEN /\ mouseEvents' = mouseEvents \o << MouseEvent("timer", Head(timeouts)),
                                                Click("CONTEXTMENU", Head(timeouts)) >>
            /\ hasPointerDownTriggeredLocationPopup' = TRUE
       ELSE /\ mouseEvents' = Append(mouseEvents, MouseEvent("timer", Head(timeouts)))
            /\ UNCHANGED hasPointerDownTriggeredLocationPopup
    /\ UNCHANGED << isPointerDown, isStillOnStartingPosition, contextMenuTimeout,
                    geoVars, configVars, coreVars >>

\* lines 48-84
OnLeftClickUp ==
    /\ Len(mouseEvents) < MaxMouseEvents
    /\ timeouts' = Without(timeouts, contextMenuTimeout)
    /\ mouseEvents' =
           IF ~hasPointerDownTriggeredLocationPopup /\ isStillOnStartingPosition
           THEN mouseEvents \o << Click("LEFT_SINGLECLICK", 0), MouseEvent("up", 0) >>
           ELSE Append(mouseEvents, MouseEvent("up", 0))
    /\ isPointerDown' = FALSE
    /\ isStillOnStartingPosition' = FALSE
    /\ hasPointerDownTriggeredLocationPopup' = FALSE
    /\ UNCHANGED << contextMenuTimeout, geoVars, configVars, coreVars >>

\* lines 86-94
OnMouseMove ==
    /\ Len(mouseEvents) < MaxMouseEvents
    /\ isStillOnStartingPosition' = onMouseMove(isPointerDown, isStillOnStartingPosition)
    /\ IF geolocation.active /\ geolocation.tracking
       THEN /\ mouseEvents' = mouseEvents \o << MouseEvent("move", 0),
                                                MouseEvent("setGeolocationTracking", 0) >>
            /\ geolocation' = [geolocation EXCEPT !.tracking = FALSE]
       ELSE /\ mouseEvents' = Append(mouseEvents, MouseEvent("move", 0))
            /\ UNCHANGED geolocation
    /\ UNCHANGED << isPointerDown, hasPointerDownTriggeredLocationPopup, contextMenuTimeout,
                    timeouts, geolocationWatcher, watchers, positionRequests, watcherIds,
                    configVars, coreVars >>

NextMouse ==
    \/ OnLeftClickDown
    \/ ContextMenuTimeoutFires
    \/ OnLeftClickUp
    \/ OnMouseMove

SpecMouse == InitMouse /\ [][NextMouse]_vars

IsClick(k) == mouseEvents[k].event = "click"
IsUp(k) == mouseEvents[k].event = "up"

\* C24: between a pointer-down and the following pointer-up at most one 'click'
\* is dispatched, whatever the order of down, move, up and timer events.
C24_OneClickPerPress ==
    \A i, j \in 1..Len(mouseEvents) :
        (i < j /\ IsClick(i) /\ IsClick(j)) => \E k \in i..j : IsUp(k)

LastDown ==
    LET downs == {k \in 1..Len(mouseEvents) : mouseEvents[k].event = "down"}
    IN  IF downs = {} THEN 0 ELSE MaxOf(downs)
\* the pointer is down and has moved since it went down
MovedSinceDown ==
    /\ isPointerDown
    /\ \E k \in (LastDown + 1)..Len(mouseEvents) : mouseEvents[k].event = "move"
ClicksOf(events) == LET OfClick(e) == e.event = "click" IN SelectSeq(events, OfClick)
PointerUpStep == Len(mouseEvents') > Len(mouseEvents) /\ mouseEvents'[Len(mouseEvents')].event = "up"

MaxActivations == 2
GeolocationErrors == {"PERMISSION_DENIED", "POSITION_UNAVAILABLE", "TIMEOUT"}

\* what watchPosition returns
Watcher(id) == [id |-> id]

\* lines 20-38: the position and its accuracy go to the store
handlePositionAndDispatchToStore(state, fix) ==
    [state EXCEPT !.position = fix, !.accuracy = "reported"]
\* lines 46-67
handlePositionError(state, code) ==
    IF code = "PERMISSION_DENIED" THEN [state EXCEPT !.denied = TRUE] ELSE state
\* lines 70-81: a previous position is used first, with a bad accuracy
WithPreviousPosition(state) ==
    IF state.position # "0,0" THEN [state EXCEPT !.accuracy = "50km"] ELSE state

InitGeolocation ==
    /\ geolocation \in [active : {FALSE}, tracking : BOOLEAN, denied : BOOLEAN,
                        position : {"0,0"}, accuracy : {"none"}]
    /\ geolocationWatcher = NULL
    /\ watchers = {}
    /\ positionRequests = 0
    /\ watcherIds = 0
    /\ IdleCore /\ IdleConfig /\ IdleMouse

\* the mutation setGeolocationActive and the subscriber, lines 132-139
SetGeolocationActive(on) ==
    /\ on # geolocation.active
    /\ IF on
       THEN /\ positionRequests + watcherIds < MaxActivations
            /\ geolocation' = WithPreviousPosition([geolocation EXCEPT !.active = TRUE])
            /\ positionRequests' = positionRequests + 1
            /\ UNCHANGED << geolocationWatcher, watchers >>
       ELSE /\ geolocation' = [geolocation EXCEPT !.active = FALSE]
            /\ IF geolocationWatcher # NULL
               THEN /\ watchers' = watchers \ {geolocationWatcher}
                    /\ geolocationWatcher' = NULL
               ELSE UNCHANGED << geolocationWatcher, watchers >>
            /\ UNCHANGED positionRequests
    /\ UNCHANGED << watcherIds, mouseVars, configVars, coreVars >>

\* the success callback of getCurrentPosition, lines 83-114
CurrentPositionFound ==
    /\ positionRequests > 0
    /\ positionRequests' = positionRequests - 1
    /\ watcherIds' = watcherIds + 1
    /\ geolocationWatcher' = Watcher(watcherIds + 1)
    /\ watchers' = watchers \cup {Watcher(watcherIds + 1)}
    /\ geolocation' =
           handlePositionAndDispatchToStore([geolocation EXCEPT !.denied = FALSE], "current")
    /\ UNCHANGED << mouseVars, configVars, coreVars >>

\* the error callback of getCurrentPosition, line 115
CurrentPositionFailed(code) ==
    /\ positionRequests > 0
    /\ positionRequests' = positionRequests - 1
    /\ geolocation' = handlePositionError(geolocation, code)
    /\ UNCHANGED << geolocationWatcher, watchers, watcherIds, mouseVars, configVars, coreVars >>

\* the callbacks of watchPosition, lines 98-99
WatcherReports(w) ==
    /\ geolocation' = handlePositionAndDispatchToStore(geolocation, "watched")
    /\ UNCHANGED << geolocationWatcher, watchers, positionRequests, watcherIds,
                    mouseVars, configVars, coreVars >>
WatcherFails(w, code) ==
    /\ geolocation' = handlePositionError(geolocation, code)
    /\ UNCHANGED << geolocationWatcher, watchers, positionRequests, watcherIds,
                    mouseVars, configVars, coreVars >>

\* a setCenter of another dispatcher (the map was moved), lines 140-149
MapMoved ==
    /\ geolocation' = [geolocation EXCEPT !.tracking = FALSE]
    /\ UNCHANGED << geolocationWatcher, watchers, positionRequests, watcherIds,
                    mouseVars, configVars, coreVars >>

NextGeolocation ==
    \/ \E on \in BOOLEAN : SetGeolocationActive(on)
    \/ CurrentPositionFound
    \/ \E code \in GeolocationErrors : CurrentPositionFailed(code)
    \/ \E w \in watchers : WatcherReports(w)
    \/ \E w \in watchers, code \in GeolocationErrors : WatcherFails(w, code)
    \/ MapMoved

SpecGeolocation == InitGeolocation /\ [][NextGeolocation]_vars

\* C26: at most one position watcher is registered at any time, and once
\* geolocation is inactive and no getCurrentPosition callback is pending,
\* geolocationWatcher is null and no watchPosition registration is left.
C26_NoWatcherLeft ==
    /\ Cardinality(watchers) <= 1
    /\ (~geolocation.active /\ positionRequests = 0) =>
           (geolocationWatcher = NULL /\ watchers = {})

(***************************************************************************)
(* The layers URL parameter (geolocation-management.plugin.js, lines       *)
(* 155-303).  layersParamParser and the store are not part of the sources: *)
(* the parsed layers are the input of dispatchLayersFromUrlIntoStore, and  *)
(* its result is the list of its dispatches, read against the active       *)
(* layers the store had when it was called.  A layer id is a sequence of   *)
(* lexemes in which the separator "|" is a lexeme of its own.              *)
(***************************************************************************)
MaxUrlLayers == 2

ParsedLayer(id, opacity, visible, customAttributes) ==
    [id |-> id, opacity |-> opacity, visible |-> visible, customAttributes |-> customAttributes]
InternalLayer(id, opacity, visible) ==
    [type |-> "WMTS", id |-> id, opacity |-> opacity, visible |-> visible]
LayerID(layer) == IF layer.type \in {"KML", "GPX"} THEN getID(layer) ELSE layer.id
\* store.getters.getLayerForId: the layer of the config, with its default opacity
getLayerForId(id) == InternalLayer(id, Num(1), TRUE)

\* str.split('|')
RECURSIVE SplitFrom(_, _, _, _)
SplitFrom(lexemes, i, parts, part) ==
    IF i > Len(lexemes) THEN Append(parts, part)
    ELSE IF lexemes[i] = "|" THEN SplitFrom(lexemes, i + 1, Append(parts, part), << >>)
    ELSE SplitFrom(lexemes, i + 1, parts, Append(part, lexemes[i]))
Split(lexemes) == SplitFrom(lexemes, 1, << >>, << >>)
\* id.startsWith('KML|')
StartsWithKml(id) == Len(id) >= 2 /\ id[1] = "KML" /\ id[2] = "|"

OpacityOf(layerId, opacity) == [layerId |-> layerId, opacity |-> opacity]
OfLayer(layerId) == [layerId |-> layerId]

\* lines 195-215: the opacity of a layer that is already active
ActiveOpacity(activeLayer, metadata) ==
    IF Truthy(metadata.opacity)
    THEN IF activeLayer.opacity # metadata.opacity
         THEN << Dispatch("setLayerOpacity", OpacityOf(LayerID(activeLayer), metadata.opacity)) >>
         ELSE << >>
    ELSE IF getLayerForId(LayerID(activeLayer)).opacity # activeLayer.opacity
         THEN << Dispatch("setLayerOpacity",
                          OpacityOf(LayerID(activeLayer),
                                    getLayerForId(LayerID(activeLayer)).opacity)) >>
         ELSE << >>

\* lines 193-224: the dispatches for one active layer
OfActiveLayer(activeLayer, parsedLayers) ==
    LET SameId(layer) == layer.id = LayerID(activeLayer)
    IN  IF Find(parsedLayers, SameId) # NULL
        THEN ActiveOpacity(activeLayer, Find(parsedLayers, SameId))
             \o (IF activeLayer.visible # Find(parsedLayers, SameId).visible
                 THEN << Dispatch("toggleLayerVisibility", OfLayer(LayerID(activeLayer))) >>
                 ELSE << >>)
        ELSE << Dispatch("removeLayer", OfLayer(LayerID(activeLayer))) >>

\* line 232
IsKmlId(id) == StartsWithKml(id) /\ Len(Split(id)) = 3

\* lines 232-239: an external layer is built from its id, an internal one is
\* added by its id
AddedLayer(layer) ==
    IF IsKmlId(layer.id)
    THEN KMLLayer(Str(Split(layer.id)[3]), layer.opacity, Str(Split(layer.id)[2]), NULL, NULL)
    ELSE OfLayer(layer.id)

\* lines 228-251: the dispatches for one layer of the URL
OfParsedLayer(layer, layers) ==
    LET SameId(activeLayer) == LayerID(activeLayer) = layer.id
    IN  IF Find(layers, SameId) = NULL
        THEN << Dispatch("addLayer", AddedLayer(layer)) >>
             \o (IF Truthy(layer.opacity)
                 THEN << Dispatch("setLayerOpacity", OpacityOf(layer.id, layer.opacity)) >>
                 ELSE << >>)
             \o (IF ~layer.visible
                 THEN << Dispatch("toggleLayerVisibility", OfLayer(layer.id)) >>
                 ELSE << >>)
        ELSE << >>

\* lines 254-263
OfTimedLayer(layer) ==
    IF layer.customAttributes # NULL /\ Truthy(layer.customAttributes.time)
    THEN << Dispatch("setTimedLayerCurrentTimestamp",
                     [layerId |-> layer.id, timestamp |-> layer.customAttributes.time]) >>
    ELSE << >>

RECURSIVE OfActiveLayers(_, _, _)
OfActiveLayers(layers, i, parsedLayers) ==
    IF i > Len(layers) THEN << >>
    ELSE OfActiveLayer(layers[i], parsedLayers) \o OfActiveLayers(layers, i + 1, parsedLayers)
RECURSIVE OfParsedLayers(_, _, _)
OfParsedLayers(parsedLayers, i, layers) ==
    IF i > Len(parsedLayers) THEN << >>
    ELSE OfParsedLayer(parsedLayers[i], layers) \o OfParsedLayers(parsedLayers, i + 1, layers)
RECURSIVE OfTimedLayers(_, _)
OfTimedLayers(parsedLayers, i) ==
    IF i > Len(parsedLayers) THEN << >>
    ELSE OfTimedLayer(parsedLayers[i]) \o OfTimedLayers(parsedLayers, i + 1)

\* lines 188-265: every dispatch of the call, in order
dispatchLayersFromUrlIntoStore(layers, parsedLayers) ==
    OfActiveLayers(layers, 1, parsedLayers)
    \o OfParsedLayers(parsedLayers, 1, layers)
    \o OfTimedLayers(parsedLayers, 1)

(***************************************************************************)
(* The layers of the store and of the URL.                                 *)
(***************************************************************************)
InternalIds == {<<"ch.a">>, <<"ch.b">>}
KmlUrls == {Str(<<"https:", "/", "f1">>), Str(<<"https:", "/", "f", "|", "2">>)}
KmlNames == {Str(<<"Drawing">>), Str(<<"A", "|", "B">>)}
\* the KML layers without adminId
KmlLayers == {KMLLayer(name, Num(1), url, NULL, NULL) : name \in KmlNames, url \in KmlUrls}
UrlOpacities == {NULL, Num(0), Num(1)}
Timestamps == {NULL, [time |-> Str(<<"2020">>)]}

ParsedLayers ==
    {ParsedLayer(id, opacity, visible, attributes) :
        id \in {<<"ch.a">>}, opacity \in UrlOpacities, visible \in BOOLEAN,
        attributes \in Timestamps}
    \cup {ParsedLayer(id, opacity, visible, NULL) :
        id \in {<<"ch.b">>}, opacity \in UrlOpacities, visible \in BOOLEAN}
    \cup {ParsedLayer(getID(layer), opacity, TRUE, NULL) :
        layer \in KmlLayers, opacity \in {NULL, Num(0)}}
StoreLayers ==
    {InternalLayer(<<"ch.a">>, opacity, visible) : opacity \in {Num(0), Num(1)}, visible \in BOOLEAN}
    \cup {InternalLayer(<<"ch.b">>, Num(1), TRUE)}
DistinctIds(layers, Id(_)) ==
    \A i, j \in 1..Len(layers) : i # j => Id(layers[i]) # Id(layers[j])
ParsedId(layer) == layer.id
UrlParamValues ==
    {layers \in UNION {[1..n -> ParsedLayers] : n \in 0..MaxUrlLayers} :
        DistinctIds(layers, ParsedId)}
ActiveLayerLists ==
    {layers \in UNION {[1..n -> StoreLayers] : n \in 0..2} : DistinctIds(layers, LayerID)}

InitLayersParam ==
    /\ activeLayers \in ActiveLayerLists
    /\ dispatched = << >>
    /\ lastImport = NoImport
    /\ IdleIcon /\ IdleKml /\ IdleProfile /\ IdleCall /\ IdlePlugins

\* the router hands the layers of the URL to the store
DispatchLayersFromUrl(parsedLayers) ==
    /\ lastCall = NoCall
    /\ lastCall' = Called("dispatchLayersFromUrlIntoStore", <<parsedLayers>>,
                          dispatchLayersFromUrlIntoStore(activeLayers, parsedLayers))
    /\ dispatched' = dispatchLayersFromUrlIntoStore(activeLayers, parsedLayers)
    /\ UNCHANGED << activeLayers, lastImport, iconVars, kmlVars, profileCalls, pluginVars >>

NextLayersParam == \E parsedLayers \in UrlParamValues : DispatchLayersFromUrl(parsedLayers)
SpecLayersParam == InitLayersParam /\ [][NextLayersParam]_vars

(***************************************************************************)
(* Properties of the layers URL parameter.                                 *)
(***************************************************************************)
UrlCallDone == lastCall.fn = "dispatchLayersFromUrlIntoStore"
UrlLayers == lastCall.args[1]
IdsOf(layers, Id(_)) == {Id(layers[k]) : k \in 1..Len(layers)}
IsKmlLayer(payload) == "type" \in DOMAIN payload /\ payload.type = "KML"
PayloadId(payload) == IF IsKmlLayer(payload) THEN getID(payload) ELSE payload.layerId
DispatchesOf(type, id) ==
    {k \in 1..Len(dispatched) : dispatched[k].type = type /\ PayloadId(dispatched[k].payload) = id}
\* the opacity a layer that was active has once the dispatches are done
OpacityAfter(activeLayer) ==
    IF DispatchesOf("setLayerOpacity", LayerID(activeLayer)) = {} THEN activeLayer.opacity
    ELSE dispatched[MaxOf(DispatchesOf("setLayerOpacity", LayerID(activeLayer)))].payload.opacity
VisibleAfter(activeLayer) ==
    IF Cardinality(DispatchesOf("toggleLayerVisibility", LayerID(activeLayer))) % 2 = 0
    THEN activeLayer.visible ELSE ~activeLayer.visible

RemovesMatchUrl ==
    \A k \in 1..Len(activeLayers) :
        Cardinality(DispatchesOf("removeLayer", LayerID(activeLayers[k]))) =
            IF LayerID(activeLayers[k]) \in IdsOf(UrlLayers, ParsedId) THEN 0 ELSE 1
AddsMatchUrl ==
    \A k \in 1..Len(UrlLayers) :
        Cardinality(DispatchesOf("addLayer", UrlLayers[k].id)) =
            IF UrlLayers[k].id \in IdsOf(activeLayers, LayerID) THEN 0 ELSE 1
VisibilityMatchesUrl ==
    \A k \in 1..Len(activeLayers), u \in 1..Len(UrlLayers) :
        LayerID(activeLayers[k]) = UrlLayers[u].id =>
            VisibleAfter(activeLayers[k]) = UrlLayers[u].visible
OpacityMatchesUrl ==
    \A k \in 1..Len(activeLayers), u \in 1..Len(UrlLayers) :
        (LayerID(activeLayers[k]) = UrlLayers[u].id /\ UrlLayers[u].opacity # NULL) =>
            OpacityAfter(activeLayers[k]) = UrlLayers[u].opacity

\* C28: dispatchLayersFromUrlIntoStore removes exactly the active layers that
\* are not in the URL, adds each layer of the URL that is not active exactly
\* once, and leaves every layer of the URL with the visibility and the opacity
\* the URL gives, an opacity of 0 included.
C28_ActiveLayersMatchUrl ==
    UrlCallDone =>
        /\ RemovesMatchUrl
        /\ AddsMatchUrl
        /\ VisibilityMatchesUrl
        /\ OpacityMatchesUrl

\* C29: the layer added for the id getID() returned for a KML layer without
\* adminId is a KML layer with that same id, "|" in the url or the name or not.
C29_KmlIdRoundTrip ==
    UrlCallDone =>
        \A u \in 1..Len(UrlLayers), layer \in KmlLayers :
            UrlLayers[u].id = getID(layer) =>
                \E k \in DispatchesOf("addLayer", UrlLayers[u].id) :
                    /\ IsKmlLayer(dispatched[k].payload)
                    /\ getID(dispatched[k].payload) = getID(layer)

(***************************************************************************)
(* WMTSCapabilitiesParser._findTileMatrixSetFromLinks                      *)
(* (WMTSCapabilitiesParser.class.js, lines 144-155).  NoValue is the       *)
(* undefined of JavaScript, which is not null.                             *)
(***************************************************************************)
MaxLinks == 3
NoValue == [undefined |-> TRUE]

Arr(elements) == [arr |-> elements]
TileMatrixSetOf(identifier) == [Identifier |-> identifier, SupportedCRS |-> "EPSG:2056"]
TileMatrixSetLink(identifier) == [TileMatrixSet |-> identifier]

\* this.Contents.TileMatrixSet?.find((set) => set.Identifier === link.TileMatrixSet)
FindTileMatrixSet(sets, link) ==
    LET Linked(set) == set.Identifier = link.TileMatrixSet
    IN  IF sets = NoValue \/ Find(sets.arr, Linked) = NULL THEN NoValue
        ELSE Find(sets.arr, Linked)

\* lines 146-153: the return of line 151 ends one callback, not the forEach
RECURSIVE ForEachLink(_, _, _, _)
ForEachLink(links, i, sets, tileMatrixSet) ==
    IF i > Len(links) THEN tileMatrixSet
    ELSE ForEachLink(links, i + 1, sets, FindTileMatrixSet(sets, links[i]))

\* _findTileMatrixSetFromLinks(links), with this.Contents.TileMatrixSet
findTileMatrixSetFromLinks(links, sets) ==
    IF links = NoValue THEN NULL ELSE ForEachLink(links.arr, 1, sets, NULL)

SetIdentifiers == {"2056", "3857", "4326"}
LinkLists ==
    {NoValue} \cup
    {Arr(links) : links \in UNION {[1..n -> {TileMatrixSetLink(id) : id \in SetIdentifiers}] :
                                       n \in 0..MaxLinks}}
TileMatrixSets ==
    {NoValue, Arr(<< >>), Arr(<< TileMatrixSetOf("2056") >>),
     Arr(<< TileMatrixSetOf("2056"), TileMatrixSetOf("3857") >>)}

InitCapabilities ==
    /\ IdleCall /\ IdlePlugins /\ IdleIcon /\ IdleKml /\ IdleImport /\ IdleProfile

FindTileMatrixSetFromLinksCall(links, sets) ==
    /\ lastCall = NoCall
    /\ lastCall' = Called("_findTileMatrixSetFromLinks", <<links, sets>>,
                          findTileMatrixSetFromLinks(links, sets))
    /\ UNCHANGED << iconVars, kmlVars, importVars, profileCalls, pluginVars >>

NextCapabilities ==
    \E links \in LinkLists, sets \in TileMatrixSets : FindTileMatrixSetFromLinksCall(links, sets)
SpecCapabilities == InitCapabilities /\ [][NextCapabilities]_vars

\* the links that name a tile matrix set of the capabilities
MatchingLinks(links, sets) ==
    IF links = NoValue \/ sets = NoValue THEN {}
    ELSE {k \in 1..Len(links.arr) :
             \E s \in 1..Len(sets.arr) : sets.arr[s].Identifier = links.arr[k].TileMatrixSet}

\* C30: _findTileMatrixSetFromLinks returns the tile matrix set of the first
\* link that names one of the capabilities, wherever that link is in the list,
\* and no tile matrix set only when no link names one.
C30_FirstMatchingLinkIsFound ==
    lastCall.fn = "_findTileMatrixSetFromLinks" =>
        LET links == lastCall.args[1]
            sets == lastCall.args[2]
        IN  IF MatchingLinks(links, sets) = {}
            THEN lastCall.result \in {NULL, NoValue}
            ELSE lastCall.result =
                     FindTileMatrixSet(sets, links.arr[MinOf(MatchingLinks(links, sets))])

====
